---- MODULE Spec2Model ----
(***************************************************************************)
(* A model of the S2Match SDK client (src/s2match.py): the retrying        *)
(* request executor, the token manager, the resource fetchers and their    *)
(* response cache.                                                         *)
(*                                                                         *)
(* Durations are integers in milliseconds; the wall clock `now` is in      *)
(* whole seconds.  A draw of random.random() is an integer number of       *)
(* hundredths (0 .. 99).  An HTTP header value is a sequence of            *)
(* one-character strings.                                                  *)
(***************************************************************************)
EXTENDS Integers, Sequences, FiniteSets, TLC

VARIABLES
    \* constructor arguments (S2Match.__init__)
    max_retries, rate_limit_delay, base_retry_delay, max_retry_delay,
    cache_enabled,
    \* instance state
    access_token, token_expiry, cache, consecutive_rate_limits,
    last_retry_timestamp,
    \* for the properties: how the stored token was obtained (the time the
    \* call read at line 99, the time line 122 stored the token, and the
    \* expires_in of the response: <<>> when it was malformed)
    token_grant,
    \* environment: the wall clock, read by time.time()
    now,
    \* control: position of the (single) caller, the public call under way,
    \* the executor's local retry counter
    pc, op, retry_count,
    \* history of the request under way (or of the last one finished): how
    \* each attempt was answered, the sleeps, how the request ended
    attempts, backoff_sleeps, pace_sleeps, last_sleep, outcome,
    \* the public call under way (or the last one finished): the HTTP
    \* requests it has sent, and how it ended
    sent, result,
    \* number of public calls started so far
    calls,
    \* for each fetcher call (name and arguments) that has returned: the
    \* value its first return gave (kept for the properties)
    first_result,
    \* argument of a pure function applied on its own, and its result:
    \* <<>> before the application, <<value>> after it
    arg, ret

vars == <<max_retries, rate_limit_delay, base_retry_delay, max_retry_delay,
          cache_enabled, access_token, token_expiry, token_grant, cache,
          consecutive_rate_limits, last_retry_timestamp, now, pc, op,
          retry_count, attempts, backoff_sleeps, pace_sleeps, last_sleep,
          outcome, sent, result, calls, first_result, arg, ret>>

config == <<max_retries, rate_limit_delay, base_retry_delay, max_retry_delay,
            cache_enabled>>
credential == <<access_token, token_expiry, token_grant>>
history == <<attempts, backoff_sleeps, pace_sleeps, last_sleep, outcome>>
pure == <<arg, ret>>
\* what no step of the request layer or of the token manager changes
rest == <<first_result, pure>>

(***************************************************************************)
(* Bounds of the model.                                                    *)
(***************************************************************************)
\* max_retries ranges over 0 .. MaxRetriesBound
MaxRetriesBound == 2
\* retry indices given to _calculate_backoff_delay on its own
MaxRetryIndex == 4
\* public calls per behaviour
MaxCalls == 2

None == "None"

Max(a, b) == IF a >= b THEN a ELSE b
Min(a, b) == IF a <= b THEN a ELSE b

RECURSIVE Pow2(_)
Pow2(n) == IF n = 0 THEN 1 ELSE 2 * Pow2(n - 1)

\* values of the constructor arguments explored (milliseconds)
RateLimitDelays == {0, 100}
BaseRetryDelays == {500, 1000}
MaxRetryDelays == {1500, 60000}
\* draws of random.random(), in hundredths; the draw is < 1
RandomDraws == {0, 25, 50, 99}

(***************************************************************************)
(* _calculate_backoff_delay                                                *)
(***************************************************************************)
\* variant: the cap is left out
CappedDelay_NoCap(n) == base_retry_delay * Pow2(n)

\* delay = base_retry_delay * 2 ** retry_count, capped at max_retry_delay
CappedDelay(n) == Min(base_retry_delay * Pow2(n), max_retry_delay)

\* jitter = delay * 0.2 * (random.random() * 2 - 1), u in hundredths
Jitter(delay, u) == (delay * 2 * (2 * u - 100)) \div 1000

CalculateBackoffDelay(n, u) == CappedDelay(n) + Jitter(CappedDelay(n), u)

(***************************************************************************)
(* The Retry-After header and float()                                      *)
(***************************************************************************)
Digits == {"0", "1", "2", "3", "4", "5", "6", "7", "8", "9"}

DigitVal(c) ==
    CASE c = "0" -> 0 [] c = "1" -> 1 [] c = "2" -> 2 [] c = "3" -> 3
      [] c = "4" -> 4 [] c = "5" -> 5 [] c = "6" -> 6 [] c = "7" -> 7
      [] c = "8" -> 8 [] c = "9" -> 9

RECURSIVE DigitsVal(_)
DigitsVal(s) ==
    IF s = <<>> THEN 0
    ELSE 10 * DigitsVal(SubSeq(s, 1, Len(s) - 1)) + DigitVal(s[Len(s)])

AllDigits(s) == \A i \in 1..Len(s) : s[i] \in Digits

\* the fraction digits after the point, as milliseconds
FracMs(f) ==
    (IF Len(f) >= 1 THEN 100 * DigitVal(f[1]) ELSE 0)
    + (IF Len(f) >= 2 THEN 10 * DigitVal(f[2]) ELSE 0)
    + (IF Len(f) >= 3 THEN DigitVal(f[3]) ELSE 0)

\* float(text) for decimal literals [sign] digits [ . digits ]: ok = FALSE
\* stands for ValueError, ms is the value in milliseconds.  (Exponents,
\* inf, nan and surrounding blanks, which float() also accepts, are not
\* among the header values explored.)
ParseFloat(s) ==
    LET signed == Len(s) > 0 /\ s[1] \in {"+", "-"}
        body == IF signed THEN Tail(s) ELSE s
        dots == {i \in 1..Len(body) : body[i] = "."}
        d == IF dots = {} THEN Len(body) + 1 ELSE CHOOSE i \in dots : TRUE
        ip == SubSeq(body, 1, d - 1)
        fp == SubSeq(body, d + 1, Len(body))
        ok == /\ Cardinality(dots) <= 1
              /\ AllDigits(ip) /\ AllDigits(fp)
              /\ Len(ip) + Len(fp) >= 1
        mag == IF ok THEN 1000 * DigitsVal(ip) + FracMs(fp) ELSE 0
    IN [ok |-> ok, ms |-> IF signed /\ s[1] = "-" THEN 0 - mag ELSE mag]

\* response.headers.get('Retry-After'): absent, or the header's text
NoHeader == [present |-> FALSE, chars |-> <<>>]
HeaderOf(text) == [present |-> TRUE, chars |-> text]
RetryAfterHeaders ==
    { NoHeader,
      HeaderOf(<<>>),
      HeaderOf(<<"2">>),
      HeaderOf(<<"5", ".", "0">>),
      HeaderOf(<<"W", "e", "d", ",", " ", "2", "1">>) }

\* `if retry_after:` -- None and the empty string are falsy
Truthy(h) == h.present /\ h.chars # <<>>

\* variant: the smaller of the two delays
ApplyRetryAfter_Min(delay, h) ==
    IF Truthy(h) /\ ParseFloat(h.chars).ok
    THEN Min(delay, ParseFloat(h.chars).ms)
    ELSE delay

\* lines 226-235: the delay after the Retry-After header has been consulted
ApplyRetryAfter(delay, h) ==
    IF Truthy(h)
    THEN IF ParseFloat(h.chars).ok
         THEN Max(delay, ParseFloat(h.chars).ms)
         ELSE delay
    ELSE delay

(***************************************************************************)
(* _handle_rate_limiting and _make_request_with_retry                      *)
(***************************************************************************)
\* variant: the pacing sleep is made whatever the configured delay
HandleRateLimiting_Always == IF rate_limit_delay >= 0 THEN 1 ELSE 0

\* number of time.sleep calls one _handle_rate_limiting call makes
HandleRateLimiting == IF rate_limit_delay > 0 THEN 1 ELSE 0

NoSleep == [kind |-> "none", delay |-> 0, computed |-> 0, header |-> NoHeader]
PaceSleep == [kind |-> "pace", delay |-> rate_limit_delay, computed |-> 0,
              header |-> NoHeader]

\* variants of the budget test: one retry too many; never give up on the
\* first attempt
BudgetExhausted_Strict(rc) == rc > max_retries
BudgetExhausted_Late(rc) == rc >= max_retries + 2
BudgetExhausted_AtLeastOnce(rc) == rc >= Max(max_retries, 1)

\* `retry_count >= self.max_retries` (lines 214 and 258)
BudgetExhausted(rc) == rc >= max_retries

\* HTTP requests sent by a public call: to the token endpoint (token), to
\* resource endpoints (resource); token_calls counts the token requests
\* handed to the executor
NoneSent == [token_calls |-> 0, token |-> 0, resource |-> 0]
OneMore(s, stage) == [s EXCEPT ![stage] = @ + 1]

\* lines 200-208: pacing, then the first request goes out; s is the
\* caller's count of requests so far
EnterExecutor(s, stage) ==
    /\ sent' = OneMore(IF stage = "token"
                       THEN [s EXCEPT !.token_calls = @ + 1] ELSE s, stage)
    /\ retry_count' = 0
    /\ attempts' = <<>>
    /\ backoff_sleeps' = 0
    /\ pace_sleeps' = HandleRateLimiting
    /\ last_sleep' = IF HandleRateLimiting > 0 THEN PaceSleep ELSE NoSleep
    /\ outcome' = "pending"
    /\ pc' = "req"

\* the executor leaves by `return response` or by `raise`
LeaveExecutor(how) ==
    /\ outcome' = how
    /\ pc' = "req_done"

\* how a public call ended: "none" while it runs, "returned" with its
\* value, or "raised"
NoResult == [status |-> "none", value |-> <<>>]
Returned(v) == [status |-> "returned", value |-> <<v>>]
Raised == [status |-> "raised", value |-> <<>>]

\* a caller invokes _make_request_with_retry directly
MakeRequestWithRetry ==
    /\ pc = "idle"
    /\ calls' = calls + 1
    /\ op' = [name |-> "_make_request_with_retry", stage |-> "resource"]
    /\ result' = NoResult
    /\ EnterExecutor(NoneSent, "resource")
    /\ UNCHANGED <<config, credential, cache, consecutive_rate_limits,
                   last_retry_timestamp, now, rest>>

\* variant: every exception is taken for a rate limit
IsRateLimit_Any(kind) == TRUE

\* lines 262-266: the exception is an HTTPError whose response is a 429.
\* kind is "r429" (raise_for_status() on a 429 response), "x429" (the
\* transport raised it), "error" (raise_for_status() on another 4xx/5xx
\* status) or "xother" (any other RequestException)
IsRateLimit(kind) == kind \in {"r429", "x429"}

\* lines 256-274: `except requests.exceptions.RequestException`
ExceptHandler(kind) ==
    IF BudgetExhausted(retry_count) \/ ~IsRateLimit(kind)
    THEN /\ LeaveExecutor("raised")
         /\ UNCHANGED <<retry_count, sent>>
    ELSE /\ retry_count' = retry_count + 1
         /\ sent' = OneMore(sent, op.stage)
         /\ UNCHANGED <<pc, outcome>>

\* lines 210-245: the response has status 429
Response429(h, u) ==
    /\ pc = "req"
    /\ attempts' = Append(attempts, "r429")
    /\ IF BudgetExhausted(retry_count)
       THEN \* line 216: raise_for_status() raises inside the try
            /\ ExceptHandler("r429")
            /\ UNCHANGED <<consecutive_rate_limits, last_retry_timestamp,
                           backoff_sleeps, last_sleep>>
       ELSE /\ consecutive_rate_limits' = consecutive_rate_limits + 1
            /\ retry_count' = retry_count + 1
            /\ last_retry_timestamp' = now
            /\ backoff_sleeps' = backoff_sleeps + 1
            /\ last_sleep' =
                 [kind |-> "backoff",
                  delay |-> ApplyRetryAfter(
                                CalculateBackoffDelay(retry_count, u), h),
                  computed |-> CalculateBackoffDelay(retry_count, u),
                  header |-> h]
            /\ sent' = OneMore(sent, op.stage)
            /\ UNCHANGED <<pc, outcome>>
    /\ UNCHANGED <<config, credential, cache, now, op, pace_sleeps, result,
                   calls, rest>>

\* lines 247-254: a 2xx response
ResponseOK ==
    /\ pc = "req"
    /\ attempts' = Append(attempts, "ok")
    /\ consecutive_rate_limits' = 0
    /\ LeaveExecutor("returned")
    /\ UNCHANGED <<config, credential, cache, last_retry_timestamp, now, op,
                   retry_count, backoff_sleeps, pace_sleeps, last_sleep,
                   sent, result, calls, rest>>

\* lines 247-252: an error status (4xx, 5xx) other than 429: the counter is
\* reset, then raise_for_status() raises inside the try
ResponseError ==
    /\ pc = "req"
    /\ attempts' = Append(attempts, "error")
    /\ consecutive_rate_limits' = 0
    /\ ExceptHandler("error")
    /\ UNCHANGED <<config, credential, cache, last_retry_timestamp, now, op,
                   backoff_sleeps, pace_sleeps, last_sleep, result, calls,
                   rest>>

\* line 210: the transport raises an HTTPError whose response is a 429
TransportRaises429 ==
    /\ pc = "req"
    /\ attempts' = Append(attempts, "x429")
    /\ ExceptHandler("x429")
    /\ UNCHANGED <<config, credential, cache, consecutive_rate_limits,
                   last_retry_timestamp, now, op, backoff_sleeps,
                   pace_sleeps, last_sleep, result, calls, rest>>

\* line 210: the transport raises any other RequestException
TransportRaisesOther ==
    /\ pc = "req"
    /\ attempts' = Append(attempts, "xother")
    /\ ExceptHandler("xother")
    /\ UNCHANGED <<config, credential, cache, consecutive_rate_limits,
                   last_retry_timestamp, now, op, backoff_sleeps,
                   pace_sleeps, last_sleep, result, calls, rest>>

\* the direct caller gets the response or the exception
ExecutorCallEnds ==
    /\ pc = "req_done"
    /\ op.name = "_make_request_with_retry"
    /\ pc' = "done"
    /\ result' = IF outcome = "returned" THEN Returned("response") ELSE Raised
    /\ UNCHANGED <<config, credential, cache, consecutive_rate_limits,
                   last_retry_timestamp, now, op, retry_count, history,
                   sent, calls, rest>>

(***************************************************************************)
(* Public calls and their frames                                           *)
(***************************************************************************)
\* the credential and the clock as get_access_token found them (kept for
\* the properties; the code does not read it)
Snapshot == [token |-> access_token, expiry |-> token_expiry, time |-> now]
NoSnapshot == [token |-> None, expiry |-> 0, time |-> 0]

\* a token response body: access_token is None when the key is missing;
\* expires_in is missing ("absent"), a number ("int") or a value that
\* cannot be multiplied by 0.9 ("malformed")
NoBody == [access_token |-> None, expires_in |-> [kind |-> "absent", v |-> 0]]

\* the locals of a public call: its name, its arguments, its cache key, the
\* stage it has reached, and the locals of get_access_token
Frame(name, args, key) ==
    [name |-> name, args |-> args, key |-> key, stage |-> "auth",
     current_time |-> 0, token |-> None, pre |-> NoSnapshot, body |-> NoBody,
     \* locals of the paginating fetchers
     matches |-> <<>>, cursor |-> "",
     \* for the properties: the pages the server has sent to this call,
     \* and the cursor parameter of each page request the call has issued
     pages |-> <<>>, page_requests |-> <<>>,
     \* locals of fetch_player_with_displayname: the players of base_result
     \* in iteration order and the number of them the loop has handled;
     \* for the properties: how each linked-portals request was answered
     players |-> <<>>, idx |-> 0, served |-> <<>>,
     \* locals of fetch_player_ranks_by_uuid: player_ranks, and the request
     \* the call is waiting for ("list", "config" or "single")
     ranks |-> <<>>, step |-> "",
     \* for the properties: the cache when the call began
     cache_before |-> cache,
     \* for the properties: the key was stored when the call began; the
     \* same call had returned before
     hit |-> cache_enabled /\ key \in DOMAIN cache,
     known |-> <<name, args>> \in DOMAIN first_result]

NoOp == [name |-> "none", stage |-> "none"]

\* a public call starts: nothing sent yet, no result yet
BeginCall(frame) ==
    /\ pc = "idle"
    /\ calls' = calls + 1
    /\ op' = frame
    /\ result' = NoResult

(***************************************************************************)
(* get_access_token                                                        *)
(***************************************************************************)
\* variant: the comparison with the expiry reversed
TokenValid_Reversed(t, time, expiry) == t \notin {None, ""} /\ time > expiry

\* line 100: `self._access_token and current_time < self._token_expiry`
TokenValid(t, time, expiry) == t \notin {None, ""} /\ time < expiry

\* line 124: the value of token_data.get("expires_in", 3600)
DefaultExpiresIn == 3600
ExpiresIn(body) ==
    IF body.expires_in.kind = "absent" THEN DefaultExpiresIn
    ELSE body.expires_in.v

\* variant: the safety margin is left out
ExpirySeconds_Full(e) == e

\* line 124: int(expires_in * 0.9), for expires_in >= 0
ExpirySeconds(e) == (9 * e) \div 10

\* variant: the expiry is counted from the time the response is handled
ExpiryBase_AtResponse(current_time, time) == time

\* lines 99 and 125: the expiry is counted from current_time, which the
\* call read before it sent the token request
ExpiryBase(current_time, time) == current_time

NoGrant == [token |-> None, start |-> 0, stored |-> 0, expires_in |-> <<>>]
Grant(token, start, stored, expires_in) ==
    [token |-> token, start |-> start, stored |-> stored,
     expires_in |-> expires_in]

\* where control goes when get_access_token returns token t to its caller
TokenReturnsTo(t) ==
    IF op.name = "get_access_token"
    THEN /\ pc' = "done"
         /\ result' = Returned(t)
    ELSE /\ pc' = "cache_check"
         /\ UNCHANGED result

\* a caller invokes get_access_token
CallGetAccessToken ==
    /\ BeginCall(Frame("get_access_token", <<>>, ""))
    /\ pc' = "auth"
    /\ sent' = NoneSent
    /\ UNCHANGED <<config, credential, cache, consecutive_rate_limits,
                   last_retry_timestamp, now, retry_count, history, rest>>

\* lines 98-102: the stored token is still valid
GetAccessTokenCached ==
    /\ pc = "auth"
    /\ TokenValid(access_token, now, token_expiry)
    /\ op' = [op EXCEPT !.current_time = now, !.pre = Snapshot,
                        !.token = access_token, !.stage = "auth_done"]
    /\ TokenReturnsTo(access_token)
    /\ UNCHANGED <<config, credential, cache, consecutive_rate_limits,
                   last_retry_timestamp, now, retry_count, history, sent,
                   calls, rest>>

\* lines 98-119: no valid token, the token request goes to the executor
GetAccessTokenRequest ==
    /\ pc = "auth"
    /\ ~TokenValid(access_token, now, token_expiry)
    /\ op' = [op EXCEPT !.current_time = now, !.pre = Snapshot,
                        !.stage = "token"]
    /\ EnterExecutor(sent, "token")
    /\ UNCHANGED <<config, credential, cache, consecutive_rate_limits,
                   last_retry_timestamp, now, result, calls, rest>>

\* lines 129-131: the executor raised; the exception goes on to the caller
\* of get_access_token, and from a fetcher (which calls get_access_token
\* outside its try) to the fetcher's caller
TokenRequestFails ==
    /\ pc = "req_done"
    /\ op.stage = "token"
    /\ outcome = "raised"
    /\ pc' = "done"
    /\ result' = Raised
    /\ op' = [op EXCEPT !.stage = "auth_failed"]
    /\ UNCHANGED <<config, credential, cache, consecutive_rate_limits,
                   last_retry_timestamp, now, retry_count, history, sent,
                   calls, rest>>

\* lines 120-128: the executor returned a response with this body
TokenResponse(body) ==
    /\ pc = "req_done"
    /\ op.stage = "token"
    /\ outcome = "returned"
    /\ IF body.access_token = None
       THEN \* line 122: KeyError
            /\ UNCHANGED credential
            /\ op' = [op EXCEPT !.body = body, !.stage = "auth_failed"]
            /\ pc' = "done"
            /\ result' = Raised
       ELSE IF body.expires_in.kind = "malformed"
       THEN \* line 124: TypeError, after line 122 has stored the token
            /\ access_token' = body.access_token
            /\ token_grant' = Grant(body.access_token, op.current_time, now,
                                    <<>>)
            /\ UNCHANGED token_expiry
            /\ op' = [op EXCEPT !.body = body, !.stage = "auth_failed"]
            /\ pc' = "done"
            /\ result' = Raised
       ELSE /\ access_token' = body.access_token
            /\ token_expiry' = ExpiryBase(op.current_time, now)
                                   + ExpirySeconds(ExpiresIn(body))
            /\ token_grant' = Grant(body.access_token, op.current_time, now,
                                    <<ExpiresIn(body)>>)
            /\ op' = [op EXCEPT !.body = body, !.token = body.access_token,
                                !.stage = "auth_done"]
            /\ TokenReturnsTo(body.access_token)
    /\ UNCHANGED <<config, cache, consecutive_rate_limits,
                   last_retry_timestamp, now, retry_count, history, sent,
                   calls, rest>>

(***************************************************************************)
(* The wall clock                                                          *)
(***************************************************************************)
Tick(limit) ==
    /\ now < limit
    /\ now' = now + 1
    /\ UNCHANGED <<config, credential, cache, consecutive_rate_limits,
                   last_retry_timestamp, pc, op, retry_count, history, sent,
                   result, calls, rest>>

\* time passing between two public calls.  The code reads the clock at
\* line 99 only (and stores it at line 243), so for a call that reads it
\* once the time that passes later in the call is time before the next call
TickBetweenCalls(limit) ==
    /\ pc = "idle"
    /\ Tick(limit)

(***************************************************************************)
(* The caller                                                              *)
(***************************************************************************)
\* the caller has the result of its call (or its exception); the locals of
\* the call and its records are gone
CallerResumes ==
    /\ pc = "done"
    /\ pc' = "idle"
    /\ op' = NoOp
    /\ retry_count' = 0
    /\ attempts' = <<>>
    /\ backoff_sleeps' = 0
    /\ pace_sleeps' = 0
    /\ last_sleep' = NoSleep
    /\ outcome' = "none"
    /\ sent' = NoneSent
    /\ result' = NoResult
    /\ UNCHANGED <<config, credential, cache, consecutive_rate_limits,
                   last_retry_timestamp, now, calls, rest>>


(***************************************************************************)
(* The response cache                                                      *)
(***************************************************************************)
\* the cache keys, as the f-strings build them
MatchesPlayerKey(player_uuid, page_size, max_matches) ==
    "matches_player_" \o player_uuid \o "_" \o ToString(page_size)
        \o "_" \o ToString(max_matches)
StatsPlayerKey(player_uuid) == "stats_player_" \o player_uuid
MatchesInstanceKey(instance_id, page_size) ==
    "matches_instance_" \o instance_id \o "_" \o ToString(page_size)
PlayerPlatformKey(platform, platform_user_id) ==
    "player_platform_" \o platform \o "_" \o platform_user_id
RanksPlayerKey(player_uuid) == "ranks_player_" \o player_uuid

\* variant: the cache is never consulted
CacheHas_Never(key) == FALSE

\* `if self.cache_enabled and cache_key in self.cache`
CacheHas(key) == cache_enabled /\ key \in DOMAIN cache

\* variant: the store replaces the whole cache
CacheStore_Evicts(c, key, value) == IF cache_enabled THEN key :> value ELSE c

\* `if self.cache_enabled: self.cache[cache_key] = value`
CacheStore(c, key, value) ==
    IF cache_enabled THEN (key :> value) @@ c ELSE c

\* the first value a fetcher call (name, arguments) returned
RecordFirst(value) ==
    IF <<op.name, op.args>> \in DOMAIN first_result THEN first_result
    ELSE (<<op.name, op.args>> :> value) @@ first_result

(***************************************************************************)
(* Resource fetchers                                                       *)
(***************************************************************************)
\* the cursor parameter of a page request URL: none, or the cursor
NoCursor == <<>>

\* variant: the cursor is left out of the URL
WithCursor_Dropped(cursor) == NoCursor

\* lines 309 and 430: the f-string appends &cursor={cursor}
WithCursor(cursor) == <<cursor>>

RetryingFetchers == {"fetch_matches_by_player_uuid"}
DirectFetchers == {"fetch_player_stats", "fetch_matches_by_instance",
                   "fetch_player_by_platform_user_id",
                   "fetch_player_with_displayname",
                   "fetch_player_ranks_by_uuid"}
SingleRequestFetchers == {"fetch_player_stats",
                          "fetch_player_by_platform_user_id"}
Fetchers == RetryingFetchers \cup DirectFetchers

\* lines 296-299, 351-352, 399-402, 468-469: a fetcher starts and calls
\* get_access_token
StartFetch(frame) ==
    /\ BeginCall(frame)
    /\ pc' = "auth"
    /\ sent' = NoneSent
    /\ UNCHANGED <<config, credential, cache, consecutive_rate_limits,
                   last_retry_timestamp, now, retry_count, history, rest>>

FetchMatchesByPlayerUuid(player_uuid, page_size, max_matches) ==
    StartFetch(Frame("fetch_matches_by_player_uuid",
                     <<player_uuid, page_size, max_matches>>,
                     MatchesPlayerKey(player_uuid, page_size, max_matches)))

FetchPlayerStats(player_uuid) ==
    StartFetch(Frame("fetch_player_stats", <<player_uuid>>,
                     StatsPlayerKey(player_uuid)))

FetchMatchesByInstance(instance_id, page_size) ==
    StartFetch(Frame("fetch_matches_by_instance", <<instance_id, page_size>>,
                     MatchesInstanceKey(instance_id, page_size)))

FetchPlayerByPlatformUserId(platform, platform_user_id) ==
    StartFetch(Frame("fetch_player_by_platform_user_id",
                     <<platform, platform_user_id>>,
                     PlayerPlatformKey(platform, platform_user_id)))

\* the fetcher returns value v
FetcherReturns(v) ==
    /\ result' = Returned(v)
    /\ first_result' = RecordFirst(v)
    /\ pc' = "done"

\* lines 301-304, 354-357, 404-407, 471-474: the key is in the cache
CacheHit ==
    /\ pc = "cache_check"
    /\ CacheHas(op.key)
    /\ op' = [op EXCEPT !.stage = "done"]
    /\ FetcherReturns(cache[op.key])
    /\ UNCHANGED <<config, credential, cache, consecutive_rate_limits,
                   last_retry_timestamp, now, retry_count, history, sent,
                   calls, pure>>

\* lines 359-368, 419-420, 476-489: pacing, then requests.get sends one
\* request outside the executor
EnterDirect ==
    /\ sent' = OneMore(sent, "resource")
    /\ attempts' = <<>>
    /\ backoff_sleeps' = 0
    /\ pace_sleeps' = HandleRateLimiting
    /\ last_sleep' = IF HandleRateLimiting > 0 THEN PaceSleep ELSE NoSleep
    /\ outcome' = "pending"
    /\ pc' = "get"

\* the key is not in the cache (or caching is off): a fetcher that uses
\* requests.get sends its first request
CacheMissDirect ==
    /\ pc = "cache_check"
    /\ ~CacheHas(op.key)
    /\ op.name \in DirectFetchers
    /\ op' = [op EXCEPT !.stage = "resource",
                        \* line 411: the first URL of
                        \* fetch_matches_by_instance has no cursor
                        !.page_requests =
                            IF op.name = "fetch_matches_by_instance"
                            THEN <<NoCursor>> ELSE @]
    /\ EnterDirect
    /\ UNCHANGED <<config, credential, cache, consecutive_rate_limits,
                   last_retry_timestamp, now, retry_count, result, calls,
                   rest>>

\* the key is not in the cache: fetch_matches_by_player_uuid reaches its
\* loop
CacheMissPaging ==
    /\ pc = "cache_check"
    /\ ~CacheHas(op.key)
    /\ op.name = "fetch_matches_by_player_uuid"
    /\ op' = [op EXCEPT !.stage = "resource"]
    /\ pc' = "page_loop"
    /\ UNCHANGED <<config, credential, cache, consecutive_rate_limits,
                   last_retry_timestamp, now, retry_count, history, sent,
                   result, calls, rest>>

\* requests.get returned a response that raise_for_status() accepts
DirectOK ==
    /\ pc = "get"
    /\ attempts' = <<"ok">>
    /\ outcome' = "returned"
    /\ pc' = "req_done"
    /\ UNCHANGED <<config, credential, cache, consecutive_rate_limits,
                   last_retry_timestamp, now, op, retry_count,
                   backoff_sleeps, pace_sleeps, last_sleep, sent, result,
                   calls, rest>>

\* requests.get raised, or returned a 429 or another error status on which
\* raise_for_status() raises
DirectFails(kind) ==
    /\ pc = "get"
    /\ attempts' = <<kind>>
    /\ outcome' = "raised"
    /\ pc' = "req_done"
    /\ UNCHANGED <<config, credential, cache, consecutive_rate_limits,
                   last_retry_timestamp, now, op, retry_count,
                   backoff_sleeps, pace_sleeps, last_sleep, sent, result,
                   calls, rest>>

\* what the failing call has collected: the matches of the pages before,
\* or the ranks with the fields set so far
Partial == IF op.name = "fetch_player_ranks_by_uuid" THEN op.ranks
           ELSE op.matches

\* variant: the except clause stores what the call has collected
CacheAfterFailure_StoresPartial(c, key, partial) == CacheStore(c, key, partial)

\* lines 326-328, 377-379, 445-447, 498-500, 1165-1167: the except clauses
\* log and re-raise; none of them assigns to self.cache
CacheAfterFailure(c, key, partial) == c

\* lines 326-328, 377-379, 445-447, 498-500, 1165-1167: a resource request
\* failed; the fetcher logs and re-raises
ResourceFails ==
    /\ pc = "req_done"
    /\ op.stage = "resource"
    /\ op.name \in Fetchers
    /\ outcome = "raised"
    /\ op' = [op EXCEPT !.stage = "failed"]
    /\ cache' = CacheAfterFailure(cache, op.key, Partial)
    /\ result' = Raised
    /\ pc' = "done"
    /\ UNCHANGED <<config, credential, consecutive_rate_limits,
                   last_retry_timestamp, now, retry_count, history, sent,
                   calls, rest>>

\* lines 370-376, 491-497: the one response of fetch_player_stats or of
\* fetch_player_by_platform_user_id, with JSON body data
SingleResponse(data) ==
    /\ pc = "req_done"
    /\ op.stage = "resource"
    /\ op.name \in SingleRequestFetchers
    /\ outcome = "returned"
    /\ cache' = CacheStore(cache, op.key, data)
    /\ op' = [op EXCEPT !.stage = "done"]
    /\ FetcherReturns(data)
    /\ UNCHANGED <<config, credential, consecutive_rate_limits,
                   last_retry_timestamp, now, retry_count, history, sent,
                   calls, pure>>

\* variant: the list is returned whole
Truncate_Whole(matches, max_matches) == matches

\* line 330: matches[:max_matches], for max_matches >= 0
Truncate(matches, max_matches) ==
    SubSeq(matches, 1, Min(Len(matches), max_matches))

\* variant: the cursor is never followed
CursorPresent_Never(cursor) == FALSE

\* lines 324 and 428: the truth value of the cursor (None and "" are false)
CursorPresent(cursor) == cursor # ""

\* variant: the loop goes on until the list is longer than max_matches
WantsMore_Inclusive(matches, max_matches) == Len(matches) <= max_matches

\* line 306: `while len(matches) < max_matches`
WantsMore(matches, max_matches) == Len(matches) < max_matches

\* lines 307-309: the URL of a page request of fetch_matches_by_player_uuid
PlayerPageUrl(cursor) ==
    IF CursorPresent(cursor) THEN WithCursor(cursor) ELSE NoCursor

\* line 306: `while len(matches) < max_matches`, and lines 330-336 after it
PlayerPageLoop ==
    /\ pc = "page_loop"
    /\ IF WantsMore(op.matches, op.args[3])
       THEN /\ EnterExecutor(sent, "resource")
            /\ op' = [op EXCEPT !.page_requests =
                                    Append(@, PlayerPageUrl(op.cursor))]
            /\ UNCHANGED <<cache, result, first_result>>
       ELSE /\ cache' = CacheStore(cache, op.key,
                                   Truncate(op.matches, op.args[3]))
            /\ op' = [op EXCEPT !.stage = "done"]
            /\ FetcherReturns(Truncate(op.matches, op.args[3]))
            /\ UNCHANGED <<retry_count, history, sent>>
    /\ UNCHANGED <<config, credential, consecutive_rate_limits,
                   last_retry_timestamp, now, calls, pure>>

\* lines 319-325 (and 330-336 on break): one page of player matches
PlayerPageResponse(page) ==
    /\ pc = "req_done"
    /\ op.stage = "resource"
    /\ op.name = "fetch_matches_by_player_uuid"
    /\ outcome = "returned"
    /\ LET matches == op.matches \o page.records
       IN IF ~CursorPresent(page.cursor)
          THEN \* `if not cursor: break`
               /\ cache' = CacheStore(cache, op.key,
                                      Truncate(matches, op.args[3]))
               /\ op' = [op EXCEPT !.matches = matches, !.cursor = "",
                                   !.pages = Append(@, page),
                                   !.stage = "done"]
               /\ FetcherReturns(Truncate(matches, op.args[3]))
          ELSE /\ op' = [op EXCEPT !.matches = matches,
                                   !.pages = Append(@, page),
                                   !.cursor = page.cursor]
               /\ pc' = "page_loop"
               /\ UNCHANGED <<cache, result, first_result>>
    /\ UNCHANGED <<config, credential, consecutive_rate_limits,
                   last_retry_timestamp, now, retry_count, history, sent,
                   calls, pure>>

(***************************************************************************)
(* fetch_player_with_displayname                                           *)
(***************************************************************************)
RECURSIVE Join(_)
\* ",".join(display_names)
Join(names) ==
    IF names = <<>> THEN ""
    ELSE IF Len(names) = 1 THEN names[1]
    ELSE names[1] \o "," \o Join(Tail(names))

\* str() of a bool, as an f-string prints it
StrBool(b) == IF b THEN "True" ELSE "False"

\* line 527; platform is None or a string, and prints as itself
PlayerDisplaynameKey(display_names, platform, include_linked_portals) ==
    "player_displayname_" \o Join(display_names) \o "_" \o platform
        \o "_" \o StrBool(include_linked_portals)

FetchPlayerWithDisplayname(display_names, platform, include_linked_portals) ==
    StartFetch(Frame("fetch_player_with_displayname",
                     <<display_names, platform, include_linked_portals>>,
                     PlayerDisplaynameKey(display_names, platform,
                                          include_linked_portals)))

\* how one linked-portals request was answered, or that none was made
Served(kind, lp) == [kind |-> kind, lp |-> lp]

\* a player object of base_result: player_id is <<>> when the key is missing
\* or null and <<id>> otherwise; linked_portals and linked_portals_error are
\* <<>> until set
PlayerObj(pid) ==
    [player_id |-> pid, linked_portals |-> <<>>, linked_portals_error |-> <<>>]

\* lines 549-557 and 570-571: the response of the lookup endpoint, whose
\* player objects are base in iteration order
BaseResponse(base) ==
    /\ pc = "req_done"
    /\ op.stage = "resource"
    /\ op.name = "fetch_player_with_displayname"
    /\ outcome = "returned"
    /\ IF ~op.args[3]
       THEN /\ cache' = CacheStore(cache, op.key, base)
            /\ op' = [op EXCEPT !.players = base, !.stage = "done"]
            /\ FetcherReturns(base)
       ELSE /\ op' = [op EXCEPT !.players = base, !.stage = "linked"]
            /\ pc' = "lp_loop"
            /\ UNCHANGED <<cache, result, first_result>>
    /\ UNCHANGED <<config, credential, consecutive_rate_limits,
                   last_retry_timestamp, now, retry_count, history, sent,
                   calls, pure>>

\* lines 572-576 and 585-589: the next player object, or the end of the
\* loops
LinkedLoop ==
    /\ pc = "lp_loop"
    /\ IF op.idx = Len(op.players)
       THEN /\ cache' = CacheStore(cache, op.key, op.players)
            /\ op' = [op EXCEPT !.stage = "done"]
            /\ FetcherReturns(op.players)
            /\ UNCHANGED <<history, sent>>
       ELSE IF op.players[op.idx + 1].player_id = <<>>
       THEN \* `if pid is not None` fails: nothing is requested
            /\ op' = [op EXCEPT !.idx = @ + 1,
                                !.served = Append(@, Served("skipped", <<>>))]
            /\ UNCHANGED <<pc, cache, result, first_result, history, sent>>
       ELSE \* lines 561-563 of _fetch_linked_portals
            /\ EnterDirect
            /\ UNCHANGED <<op, cache, result, first_result>>
    /\ UNCHANGED <<config, credential, consecutive_rate_limits,
                   last_retry_timestamp, now, retry_count, calls, pure>>

\* variant: the handler catches nothing
LinkedFailureCaught_Never(kind) == FALSE

\* line 582: `except requests.exceptions.RequestException`; "attr" is the
\* AttributeError of line 567 on a JSON body that is not an object
LinkedFailureCaught(kind) == kind \in {"r429", "error", "x429", "xother"}

\* _fetch_linked_portals raised an exception of this kind: lines 582-586
\* when the handler catches it, and otherwise out of the fetcher (line 592
\* catches RequestException only)
LinkedRaises(kind) ==
    IF LinkedFailureCaught(kind)
    THEN /\ op' = [op EXCEPT
                       !.players[op.idx + 1].linked_portals = << <<>> >>,
                       !.players[op.idx + 1].linked_portals_error = <<kind>>,
                       !.idx = @ + 1,
                       !.served = Append(@, Served(kind, <<>>))]
         /\ pc' = "lp_loop"
         /\ UNCHANGED result
    ELSE /\ op' = [op EXCEPT !.stage = "linked_failed",
                             !.served = Append(@, Served(kind, <<>>))]
         /\ result' = Raised
         /\ pc' = "done"

\* lines 564-565 raised: the linked-portals request failed
LinkedFails ==
    /\ pc = "req_done"
    /\ op.stage = "linked"
    /\ outcome = "raised"
    /\ LinkedRaises(attempts[1])
    /\ UNCHANGED <<config, credential, cache, consecutive_rate_limits,
                   last_retry_timestamp, now, retry_count, history, sent,
                   calls, rest>>

\* lines 565-567 and 579-581: the linked-portals response has a JSON body:
\* an object with the list lp under linked_portals ("list"), an object
\* without that key ("nokey"), or a value that is no object ("notobject")
LinkedResponse(body) ==
    /\ pc = "req_done"
    /\ op.stage = "linked"
    /\ outcome = "returned"
    /\ IF body.kind = "notobject"
       THEN LinkedRaises("attr")
       ELSE /\ op' = [op EXCEPT
                          !.players[op.idx + 1].linked_portals =
                              <<IF body.kind = "list" THEN body.lp ELSE <<>> >>,
                          !.idx = @ + 1,
                          !.served = Append(@, body)]
            /\ pc' = "lp_loop"
            /\ UNCHANGED result
    /\ UNCHANGED <<config, credential, cache, consecutive_rate_limits,
                   last_retry_timestamp, now, retry_count, history, sent,
                   calls, rest>>

\* lines 422-443: one page of instance matches
InstancePageResponse(page) ==
    /\ pc = "req_done"
    /\ op.stage = "resource"
    /\ op.name = "fetch_matches_by_instance"
    /\ outcome = "returned"
    /\ LET matches == op.matches \o page.records
       IN IF CursorPresent(page.cursor)
          THEN \* `while cursor`: the next page is requested
               /\ op' = [op EXCEPT !.matches = matches,
                                   !.pages = Append(@, page),
                                   !.cursor = page.cursor,
                                   !.page_requests =
                                       Append(@, WithCursor(page.cursor))]
               /\ EnterDirect
               /\ UNCHANGED <<cache, result, first_result>>
          ELSE /\ cache' = CacheStore(cache, op.key, matches)
               /\ op' = [op EXCEPT !.matches = matches, !.cursor = "",
                                   !.pages = Append(@, page),
                                   !.stage = "done"]
               /\ FetcherReturns(matches)
               /\ UNCHANGED <<history, sent>>
    /\ UNCHANGED <<config, credential, consecutive_rate_limits,
                   last_retry_timestamp, now, retry_count, calls, pure>>

(***************************************************************************)
(* fetch_player_ranks_by_uuid.  `data` is modelled by its player_ranks     *)
(* list; a rank object by its rank_id and the fields the call sets.        *)
(***************************************************************************)
\* lines 1083-1107: the token is an argument, so the call starts at its
\* cache check
FetchPlayerRanksByUuid(token, player_uuid) ==
    /\ BeginCall([Frame("fetch_player_ranks_by_uuid", <<token, player_uuid>>,
                        RanksPlayerKey(player_uuid))
                      EXCEPT !.stage = "cache", !.token = token,
                             !.step = "list"])
    /\ pc' = "cache_check"
    /\ sent' = NoneSent
    /\ UNCHANGED <<config, credential, cache, consecutive_rate_limits,
                   last_retry_timestamp, now, retry_count, history, rest>>

\* line 1125: `if rank_id`, for the rank objects from position i on
NextRanked(ranks, i) ==
    LET ranked == {j \in i..Len(ranks) : ranks[j].rank_id # <<>>}
    IN IF ranked = {} THEN Len(ranks) + 1
       ELSE CHOOSE j \in ranked : \A k \in ranked : j <= k

\* lines 1123-1130 and 1160-1163: the for loop goes on from position i; it
\* sends the config request of the next rank object that has a rank_id, or
\* ends, and then the data are stored and returned
RanksLoop(ranks, i) ==
    LET j == NextRanked(ranks, i)
    IN IF j <= Len(ranks)
       THEN /\ op' = [op EXCEPT !.ranks = ranks, !.idx = j,
                                !.step = "config"]
            /\ EnterDirect
            /\ UNCHANGED <<cache, result, first_result>>
       ELSE /\ cache' = CacheStore(cache, op.key, ranks)
            /\ op' = [op EXCEPT !.ranks = ranks, !.idx = j,
                                !.stage = "done"]
            /\ FetcherReturns(ranks)
            /\ UNCHANGED <<history, sent>>

\* lines 1116-1121: the response of the rank list request
RanksListResponse(player_ranks) ==
    /\ pc = "req_done"
    /\ op.stage = "resource"
    /\ op.name = "fetch_player_ranks_by_uuid"
    /\ op.step = "list"
    /\ outcome = "returned"
    /\ RanksLoop(player_ranks, 1)
    /\ UNCHANGED <<config, credential, consecutive_rate_limits,
                   last_retry_timestamp, now, retry_count, calls, pure>>

\* lines 1133-1139
RankConfigured(rank_obj, configs_list) ==
    IF configs_list # <<>>
    THEN [rank_obj EXCEPT !.rank_name = <<configs_list[1].name>>,
                          !.rank_description =
                              <<configs_list[1].description>>]
    ELSE [rank_obj EXCEPT !.rank_name = <<"<no_config>">>,
                          !.rank_description = <<"<no_config>">>]

\* lines 1129-1145: the response of the rank config request; the single
\* rank request follows
RanksConfigResponse(configs_list) ==
    /\ pc = "req_done"
    /\ op.stage = "resource"
    /\ op.name = "fetch_player_ranks_by_uuid"
    /\ op.step = "config"
    /\ outcome = "returned"
    /\ op' = [op EXCEPT !.ranks[op.idx] = RankConfigured(@, configs_list),
                        !.step = "single"]
    /\ EnterDirect
    /\ UNCHANGED <<config, credential, cache, consecutive_rate_limits,
                   last_retry_timestamp, now, retry_count, result, calls,
                   rest>>

\* lines 1148-1156: custom_data of the first detailed rank object, if it
\* has one
RankDetailed(rank_obj, sr_list) ==
    IF sr_list # <<>> /\ sr_list[1].custom_data # <<>>
    THEN [rank_obj EXCEPT !.custom_data = sr_list[1].custom_data]
    ELSE rank_obj

\* lines 1144-1163: the response of the single rank request
RanksSingleResponse(sr_list) ==
    /\ pc = "req_done"
    /\ op.stage = "resource"
    /\ op.name = "fetch_player_ranks_by_uuid"
    /\ op.step = "single"
    /\ outcome = "returned"
    /\ RanksLoop([op.ranks EXCEPT ![op.idx] = RankDetailed(@, sr_list)],
                 op.idx + 1)
    /\ UNCHANGED <<config, credential, consecutive_rate_limits,
                   last_retry_timestamp, now, retry_count, calls, pure>>

(***************************************************************************)
(* get_full_player_data_by_displayname.  The calls it makes                *)
(* (get_access_token, fetch_player_with_displayname, get_player_stats,     *)
(* get_matches_by_player_uuid, fetch_player_ranks_by_uuid) are steps here: *)
(* each returns a value or raises, as the actions above decide.            *)
(***************************************************************************)
\* line 1020
FullPlayerKey(platform, display_name, max_matches) ==
    "s2_full_player_" \o platform \o "_" \o display_name \o "_"
        \o ToString(max_matches)

\* the locals of get_full_player_data_by_displayname: all_player_uuids in
\* the order the for loop visits the set, the number of UUIDs handled, the
\* lists of combined_data; for the properties, what each match fetch
\* returned and how each rank fetch ended
AggFrame(platform, display_name, max_matches) ==
    [name |-> "get_full_player_data_by_displayname",
     args |-> <<platform, display_name, max_matches>>,
     key |-> FullPlayerKey(platform, display_name, max_matches),
     stage |-> "cache", info |-> <<>>, uuids |-> <<>>, idx |-> 0,
     stats_data |-> "", PlayerStats |-> <<>>, PlayerRanks |-> <<>>,
     MatchHistory |-> <<>>, match_log |-> <<>>, rank_log |-> <<>>,
     failed_at |-> "",
     \* for the properties: the key was stored when the call began
     hit |-> cache_enabled
               /\ FullPlayerKey(platform, display_name, max_matches)
                      \in DOMAIN cache]

\* lines 1047-1052
CombinedData(frame) ==
    [PlayerInfo |-> frame.info, PlayerStats |-> frame.PlayerStats,
     PlayerRanks |-> frame.PlayerRanks, MatchHistory |-> frame.MatchHistory]

\* lines 1035-1045: the truthy player_uuid values of the player objects and
\* of their linked portals; "" stands for a missing or empty value
AllPlayerUuids(info) ==
    {u \in {info[i].player_uuid : i \in 1..Len(info)}
            \cup UNION {{info[i].linked_portals[j] :
                             j \in 1..Len(info[i].linked_portals)} :
                        i \in 1..Len(info)} : u # ""}

\* the orders in which a for loop may visit a set
Orders(S) ==
    {f \in [1..Cardinality(S) -> S] : \A x \in S : \E i \in DOMAIN f : f[i] = x}

GetFullPlayerDataByDisplayname(platform, display_name, max_matches) ==
    /\ BeginCall(AggFrame(platform, display_name, max_matches))
    /\ pc' = "agg_cache"
    /\ sent' = NoneSent
    /\ UNCHANGED <<config, credential, cache, consecutive_rate_limits,
                   last_retry_timestamp, now, retry_count, history, rest>>

\* lines 1021-1023
AggCacheHit ==
    /\ pc = "agg_cache"
    /\ CacheHas(op.key)
    /\ op' = [op EXCEPT !.stage = "hit"]
    /\ result' = Returned(cache[op.key])
    /\ pc' = "done"
    /\ UNCHANGED <<config, credential, cache, consecutive_rate_limits,
                   last_retry_timestamp, now, retry_count, history, sent,
                   calls, rest>>

\* line 1025: the key is not stored; get_access_token is called
AggCacheMiss ==
    /\ pc = "agg_cache"
    /\ ~CacheHas(op.key)
    /\ op' = [op EXCEPT !.stage = "token"]
    /\ pc' = "agg_token"
    /\ UNCHANGED <<config, credential, cache, consecutive_rate_limits,
                   last_retry_timestamp, now, retry_count, history, sent,
                   result, calls, rest>>

\* line 1025: get_access_token returned
AggTokenReturns ==
    /\ pc = "agg_token"
    /\ op' = [op EXCEPT !.stage = "lookup"]
    /\ pc' = "agg_lookup"
    /\ UNCHANGED <<config, credential, cache, consecutive_rate_limits,
                   last_retry_timestamp, now, retry_count, history, sent,
                   result, calls, rest>>

\* lines 1025, 1028, 1056, 1059: a call outside any try raised
AggCallRaises ==
    /\ pc \in {"agg_token", "agg_lookup", "agg_stats", "agg_matches"}
    /\ op' = [op EXCEPT !.failed_at = op.stage, !.stage = "failed"]
    /\ result' = Raised
    /\ pc' = "done"
    /\ UNCHANGED <<config, credential, cache, consecutive_rate_limits,
                   last_retry_timestamp, now, retry_count, history, sent,
                   calls, rest>>

\* lines 1028-1052: fetch_player_with_displayname returned the player
\* objects info, and the set of UUIDs is built
AggLookupReturns(info, order) ==
    /\ pc = "agg_lookup"
    /\ order \in Orders(AllPlayerUuids(info))
    /\ op' = [op EXCEPT !.info = info, !.uuids = order, !.stage = "loop"]
    /\ pc' = "agg_loop"
    /\ UNCHANGED <<config, credential, cache, consecutive_rate_limits,
                   last_retry_timestamp, now, retry_count, history, sent,
                   result, calls, rest>>

\* lines 1054-1056 and 1076-1081: the next UUID, or the end of the loop
AggLoop ==
    /\ pc = "agg_loop"
    /\ IF op.idx = Len(op.uuids)
       THEN /\ cache' = CacheStore(cache, op.key, CombinedData(op))
            /\ op' = [op EXCEPT !.stage = "done"]
            /\ result' = Returned(CombinedData(op))
            /\ pc' = "done"
       ELSE /\ op' = [op EXCEPT !.stage = "stats"]
            /\ pc' = "agg_stats"
            /\ UNCHANGED <<cache, result>>
    /\ UNCHANGED <<config, credential, consecutive_rate_limits,
                   last_retry_timestamp, now, retry_count, history, sent,
                   calls, rest>>

\* line 1056: get_player_stats returned
AggStatsReturns(stats_data) ==
    /\ pc = "agg_stats"
    /\ op' = [op EXCEPT !.stats_data = stats_data, !.stage = "matches"]
    /\ pc' = "agg_matches"
    /\ UNCHANGED <<config, credential, cache, consecutive_rate_limits,
                   last_retry_timestamp, now, retry_count, history, sent,
                   result, calls, rest>>

\* lines 1059-1066: get_matches_by_player_uuid returned
AggMatchesReturns(matches_data) ==
    /\ pc = "agg_matches"
    /\ op' = [op EXCEPT
                  !.PlayerStats =
                      Append(@, [player_uuid |-> op.uuids[op.idx + 1],
                                 stats |-> op.stats_data]),
                  !.MatchHistory = @ \o matches_data,
                  !.match_log = Append(@, matches_data),
                  !.stage = "ranks"]
    /\ pc' = "agg_ranks"
    /\ UNCHANGED <<config, credential, cache, consecutive_rate_limits,
                   last_retry_timestamp, now, retry_count, history, sent,
                   result, calls, rest>>

\* variant: the handler catches nothing
RankFailureCaught_Never(kind) == FALSE

\* line 1072: `except Exception`
RankFailureCaught(kind) == TRUE

\* the record of a rank fetch that raised
RankFailed(kind) == [kind |-> kind, ranks |-> <<>>]

\* lines 1069-1074: the try block raised an exception of this kind
RankRaises(kind) ==
    IF RankFailureCaught(kind)
    THEN /\ op' = [op EXCEPT !.idx = @ + 1,
                             !.rank_log = Append(@, RankFailed(kind)),
                             !.stage = "loop"]
         /\ pc' = "agg_loop"
         /\ UNCHANGED result
    ELSE /\ op' = [op EXCEPT !.failed_at = "ranks", !.stage = "failed",
                             !.rank_log = Append(@, RankFailed(kind))]
         /\ result' = Raised
         /\ pc' = "done"

\* line 1069: fetch_player_ranks_by_uuid raised a RequestException
\* ("request") or another exception ("other")
AggRanksFails(kind) ==
    /\ pc = "agg_ranks"
    /\ RankRaises(kind)
    /\ UNCHANGED <<config, credential, cache, consecutive_rate_limits,
                   last_retry_timestamp, now, retry_count, history, sent,
                   calls, rest>>

\* lines 1069-1071: fetch_player_ranks_by_uuid returned: an object with the
\* list ranks under player_ranks ("list"), an object without that key
\* ("nokey"), or a value that is no object ("notobject")
AggRanksReturns(ranks_data) ==
    /\ pc = "agg_ranks"
    /\ IF ranks_data.kind = "notobject"
       THEN RankRaises("attr")
       ELSE /\ op' = [op EXCEPT
                          !.PlayerRanks =
                              @ \o (IF ranks_data.kind = "list"
                                    THEN ranks_data.ranks ELSE <<>>),
                          !.idx = @ + 1,
                          !.rank_log = Append(@, ranks_data),
                          !.stage = "loop"]
            /\ pc' = "agg_loop"
            /\ UNCHANGED result
    /\ UNCHANGED <<config, credential, cache, consecutive_rate_limits,
                   last_retry_timestamp, now, retry_count, history, sent,
                   calls, rest>>

(***************************************************************************)
(* transform_player                                                        *)
(***************************************************************************)
\* a value of a raw record: null, a string (its characters), a number, or
\* a non-empty object
RawNull == [t |-> "null", chars |-> <<>>, v |-> 0]
RawStr(chars) == [t |-> "str", chars |-> chars, v |-> 0]
RawInt(v) == [t |-> "int", chars |-> <<>>, v |-> v]
RawObj == [t |-> "obj", chars |-> <<>>, v |-> 0]

\* the truth value Python gives a raw value
RawTruthy(raw) ==
    CASE raw.t = "null" -> FALSE
      [] raw.t = "str" -> raw.chars # <<>>
      [] raw.t = "int" -> raw.v # 0
      [] raw.t = "obj" -> TRUE

\* the characters str.isdigit() accepts, among those explored: the decimal
\* digits and "sup2", which stands for SUPERSCRIPT TWO (U+00B2)
IsDigitChar(c) == c \in Digits \cup {"sup2"}

\* str.isdigit()
IsDigit(chars) ==
    chars # <<>> /\ \A i \in 1..Len(chars) : IsDigitChar(chars[i])

\* int(text) for a text that isdigit() accepts: ok = FALSE stands for the
\* ValueError int() raises on a digit that is no decimal digit
PyInt(chars) ==
    [ok |-> AllDigits(chars),
     v |-> IF AllDigits(chars) THEN DigitsVal(chars) ELSE 0]

\* line 643: `raw_val and isinstance(raw_val, str) and raw_val.isdigit()`;
\* lines 672-675 pass the same values
IsDigitString(raw) == RawTruthy(raw) /\ raw.t = "str" /\ IsDigit(raw.chars)

\* a dict of a raw record: its entries [key, raw] in insertion order; a
\* key is the sequence of the segments between its dots
Get(entries, key) ==
    IF \E i \in 1..Len(entries) : entries[i].key = key
    THEN entries[CHOOSE i \in 1..Len(entries) : entries[i].key = key].raw
    ELSE RawNull

\* line 614: player_data.get("custom_data", {}) or {}; the field is absent,
\* null or a dict
CustomData(player) ==
    IF player.custom_data.t = "dict" THEN player.custom_data.entries ELSE <<>>

RECURSIVE JoinDot(_)
\* ".".join(segments)
JoinDot(segments) ==
    IF segments = <<>> THEN ""
    ELSE IF Len(segments) = 1 THEN segments[1]
    ELSE segments[1] \o "." \o JoinDot(Tail(segments))

\* lines 634-639
BasicStatsKeys ==
    {"Kills", "Deaths", "Assists", "TowerKills", "PhoenixKills", "TitanKills",
     "TotalDamage", "TotalNPCDamage", "TotalDamageTaken",
     "TotalDamageMitigated", "TotalGoldEarned", "TotalXPEarned",
     "TotalStructureDamage", "TotalMinionDamage", "TotalAllyHealing",
     "TotalSelfHealing", "TotalWardsPlaced", "PlayerLevel"}

\* line 643
StatValue(raw) == IF IsDigitString(raw) THEN PyInt(raw.chars).v ELSE 0
StatRaises(raw) == IsDigitString(raw) /\ ~PyInt(raw.chars).ok

\* JSON values: an object (its members), an array, a number, a string, null
JsonObject(m) == [t |-> "object", m |-> m]
JsonArray == [t |-> "array", m |-> <<>>]
JsonNumber == [t |-> "number", m |-> <<>>]
JsonNull == [t |-> "null", m |-> <<>>]
EmptyObject == JsonObject(<<>>)

\* the JSON texts explored: {}  {"1":"a"}  {"1":"a","2":"b"}  []  3  null  {
TextEmptyObject == <<"{", "}">>
TextOneSlot == <<"{", "\"", "1", "\"", ":", "\"", "a", "\"", "}">>
TextTwoSlots == <<"{", "\"", "1", "\"", ":", "\"", "a", "\"", ",",
                  "\"", "2", "\"", ":", "\"", "b", "\"", "}">>
TextArray == <<"[", "]">>
TextNumber == <<"3">>
TextNull == <<"n", "u", "l", "l">>
TextBroken == <<"{">>

\* json.loads(text) for the texts explored: ok = FALSE stands for
\* JSONDecodeError
JsonLoads(chars) ==
    CASE chars = TextEmptyObject -> [ok |-> TRUE, value |-> EmptyObject]
      [] chars = TextOneSlot ->
             [ok |-> TRUE, value |-> JsonObject("1" :> "a")]
      [] chars = TextTwoSlots ->
             [ok |-> TRUE, value |-> JsonObject(("1" :> "a") @@ ("2" :> "b"))]
      [] chars = TextArray -> [ok |-> TRUE, value |-> JsonArray]
      [] chars = TextNumber -> [ok |-> TRUE, value |-> JsonNumber]
      [] chars = TextNull -> [ok |-> TRUE, value |-> JsonNull]
      [] OTHER -> [ok |-> FALSE, value |-> JsonNull]

\* lines 651-658 and 660-667: a falsy field gives {}; json.loads raises
\* TypeError on a value that is no string and JSONDecodeError on a text
\* that is no JSON, and both give {}
ParseJsonField(raw) ==
    IF ~RawTruthy(raw) THEN EmptyObject
    ELSE IF raw.t # "str" THEN EmptyObject
    ELSE IF JsonLoads(raw.chars).ok THEN JsonLoads(raw.chars).value
    ELSE EmptyObject

\* key.startswith("Ability.Type.Item"), for the third segments explored
StartsWithAbilityTypeItem(key) ==
    /\ Len(key) >= 3
    /\ key[1] = "Ability"
    /\ key[2] = "Type"
    /\ key[3] \in {"Item", "Items", "ItemDamage"}

\* lines 677-698: the bucket and the name under which a digit-valued key is
\* stored, <<>> when it is stored nowhere
Target(key) ==
    IF Len(key) >= 2 /\ key[1] = "Gods"
    THEN IF Len(key) >= 3
         THEN <<key[2], JoinDot(SubSeq(key, 3, Len(key)))>>
         ELSE <<>>
    ELSE IF Len(key) >= 2 /\ key[1] = "Items"
    THEN IF Len(key) = 3 THEN <<key[2], key[3]>> ELSE <<key[2], "value">>
    ELSE IF (Len(key) >= 2 /\ key[1] = "NPC") \/ StartsWithAbilityTypeItem(key)
    THEN <<"Misc", JoinDot(key)>>
    ELSE <<"misc_stats", JoinDot(key)>>

\* an entry of custom_data that the loop of lines 671-698 writes
Written(entry) == IsDigitString(entry.raw) /\ Target(entry.key) # <<>>

RECURSIVE Place(_, _)
\* lines 671-698 after the first n entries: for each <<bucket, name>>
\* written, the value there and the key that wrote it last
Place(entries, n) ==
    IF n = 0 THEN <<>>
    ELSE IF Written(entries[n])
    THEN (Target(entries[n].key) :>
              [value |-> PyInt(entries[n].raw.chars).v,
               key |-> entries[n].key])
             @@ Place(entries, n - 1)
    ELSE Place(entries, n - 1)

\* damage_breakdown as the nested dict the loop builds
DamageBreakdown(entries) ==
    LET placed == Place(entries, Len(entries))
        buckets == {t[1] : t \in DOMAIN placed}
    IN [b \in buckets |->
           [name \in {t[2] : t \in {x \in DOMAIN placed : x[1] = b}} |->
                placed[<<b, name>>].value]]

\* int() raises in the loops of lines 641-644 or 671-698
TransformRaises(entries) ==
    \/ \E k \in BasicStatsKeys : StatRaises(Get(entries, <<k>>))
    \/ \E i \in 1..Len(entries) :
           Written(entries[i]) /\ ~PyInt(entries[i].raw.chars).ok

\* lines 600-703.  CharacterChoice is not among the keys explored, so
\* god_name is "UnknownGod"
TransformPlayer(player) ==
    LET entries == CustomData(player)
    IN IF TransformRaises(entries) THEN Raised
       ELSE Returned(
                [player_uuid |-> player.player_uuid,
                 team_id |-> player.team_id,
                 god_name |-> "UnknownGod",
                 basic_stats |->
                     [k \in BasicStatsKeys |-> StatValue(Get(entries, <<k>>))],
                 items |-> ParseJsonField(Get(entries, <<"Items">>)),
                 role_preferences |->
                     ParseJsonField(Get(entries, <<"RolePreferences">>)),
                 damage_breakdown |-> DamageBreakdown(entries)])

(***************************************************************************)
(* transform_matches, transform_matches_by_instance and item enrichment    *)
(***************************************************************************)
\* an exception that leaves a transform call, with the step it came from:
\* "record" (building the records, lines 718-733 and 752-797), "load"
\* (_load_items_map, lines 883-887) or "replace" (_replace_item_ids)
RaisedAt(stage) == [status |-> "raised", value |-> <<>>, stage |-> stage]

\* a field that holds a dict or a list when it is present and not null
Absent == [t |-> "absent", entries |-> <<>>]
Null == [t |-> "null", entries |-> <<>>]
Dict(entries) == [t |-> "dict", entries |-> entries]
List(entries) == [t |-> "list", entries |-> entries]

\* the `match` field of a player-match record: absent, null or an object
NoMatch == [t |-> "absent", match_id |-> RawNull, custom_data |-> Absent]
NullMatch == [t |-> "null", match_id |-> RawNull, custom_data |-> Absent]
MatchObject(match_id, custom_data) ==
    [t |-> "object", match_id |-> match_id, custom_data |-> custom_data]

\* line 723: match_info.get("custom_data", {}), with match_info the {} of
\* line 722 when the record has no `match`
MatchCustom(match) ==
    IF match.t = "absent" \/ match.custom_data.t = "absent" THEN Dict(<<>>)
    ELSE match.custom_data

\* lines 722-731: .get on the None a null `match` or a null custom_data
\* leaves raises AttributeError
MatchFieldsRaise(record) ==
    record.match.t = "null" \/ MatchCustom(record.match).t = "null"

\* lines 725-731
MatchFields(record) ==
    LET match_custom == MatchCustom(record.match).entries
    IN [match_id |-> record.match.match_id,
        map |-> Get(match_custom, <<"CurrentMap">>),
        mode |-> Get(match_custom, <<"CurrentMode">>),
        lobby_type |-> Get(match_custom, <<"LobbyType">>),
        winning_team |-> Get(match_custom, <<"WinningTeam">>)]

\* [self.transform_player(p) for p in players]
TransformPlayers(players) ==
    [i \in 1..Len(players) |-> TransformPlayer(players[i])]
AnyRaised(results) ==
    \E i \in 1..Len(results) : results[i].status = "raised"
Values(results) == [i \in 1..Len(results) |-> results[i].value[1]]

\* lines 718-733: the records before enrichment, or the exception
PlayerRecords(rh_matches) ==
    LET transformed == TransformPlayers(rh_matches)
    IN IF \/ AnyRaised(transformed)
          \/ \E i \in 1..Len(rh_matches) : MatchFieldsRaise(rh_matches[i])
       THEN RaisedAt("record")
       ELSE Returned([i \in 1..Len(rh_matches) |->
                         transformed[i].value[1] @@ MatchFields(rh_matches[i])])

\* line 757: match_info.get("custom_data", {}) or {}
InstanceCustom(match_info) ==
    IF match_info.custom_data.t = "dict" THEN match_info.custom_data.entries
    ELSE <<>>

\* x.get(field, []) that a for loop or a comprehension iterates: a null
\* field leaves None, and iterating None raises TypeError
IterationRaises(field) == field.t = "null"
Iterated(field) == IF field.t = "list" THEN field.entries ELSE <<>>

\* lines 775-789
TransformSegment(seg) ==
    [segment_label |-> seg.match_segment,
     players |-> Values(TransformPlayers(Iterated(seg.players)))]

SegmentRaises(seg) ==
    \/ IterationRaises(seg.players)
    \/ AnyRaised(TransformPlayers(Iterated(seg.players)))

\* lines 753-797 for one match
InstanceRaises(match_info) ==
    \/ IterationRaises(match_info.segments)
    \/ \E i \in 1..Len(Iterated(match_info.segments)) :
           SegmentRaises(Iterated(match_info.segments)[i])
    \/ IterationRaises(match_info.players)
    \/ AnyRaised(TransformPlayers(Iterated(match_info.players)))

TransformInstance(match_info) ==
    LET custom_data == InstanceCustom(match_info)
        segments == Iterated(match_info.segments)
    IN [match_id |-> match_info.match_id,
        map |-> IF \E i \in 1..Len(custom_data) :
                       custom_data[i].key = <<"CurrentMap">>
                THEN Get(custom_data, <<"CurrentMap">>)
                ELSE RawStr(<<"Unknown">>),
        winning_team |-> Get(custom_data, <<"WinningTeam">>),
        segments |-> [i \in 1..Len(segments) |-> TransformSegment(segments[i])],
        final_players |->
            Values(TransformPlayers(Iterated(match_info.players)))]

\* lines 752-797: the matches before enrichment, or the exception
InstanceRecords(rh_matches) ==
    IF \E i \in 1..Len(rh_matches) : InstanceRaises(rh_matches[i])
    THEN RaisedAt("record")
    ELSE Returned([i \in 1..Len(rh_matches) |->
                      TransformInstance(rh_matches[i])])

\* items.json as _load_items_map finds it: missing (open raises
\* FileNotFoundError), unreadable (open or read raises OSError), invalid
\* (json.load raises JSONDecodeError), a JSON array of item objects, or a
\* non-empty JSON object (iterating it yields its keys, which are strings)
ItemsFile(t, items_data) == [t |-> t, items_data |-> items_data]

\* lines 875-880: `except Exception` around open and json.load
LoadFailureCaught_Never(kind) == FALSE
LoadFailureCaught(kind) == kind \in {"missing", "unreadable", "invalid"}

RECURSIVE ItemMap(_, _)
\* lines 883-887 after the first n objects of the file: an object whose
\* Item_Id is absent or empty ("" here) is skipped, a later object replaces
\* an earlier one of the same Item_Id
ItemMap(items_data, n) ==
    IF n = 0 THEN <<>>
    ELSE IF items_data[n].Item_Id # ""
    THEN (items_data[n].Item_Id :> items_data[n]) @@ ItemMap(items_data, n - 1)
    ELSE ItemMap(items_data, n - 1)

\* lines 860-888: the map, or the exception that leaves the function: one
\* of open or json.load that is not caught, or the AttributeError of
\* item_obj.get on a string
LoadItemsMap(file) ==
    IF file.t \in {"missing", "unreadable", "invalid"}
    THEN IF LoadFailureCaught(file.t) THEN Returned(<<>>) ELSE RaisedAt("load")
    ELSE IF file.t = "array"
    THEN Returned(ItemMap(file.items_data, Len(file.items_data)))
    ELSE RaisedAt("load")

\* line 851: item_id in item_map
InItemMap_Never(item_id, item_map) == FALSE
InItemMap(item_id, item_map) == item_id \in DOMAIN item_map

\* lines 855-858
Placeholder(item_id) ==
    [Item_Id |-> item_id, DisplayName |-> "<display name missing>"]

\* lines 848-849: items_dict.items() raises AttributeError when `items` is
\* a list, a number or None
ReplaceRaises(player) == player.items.t # "object"

\* lines 848-858
ReplaceItemIds(player, item_map) ==
    [player EXCEPT !.items =
        JsonObject([slot_key \in DOMAIN player.items.m |->
            IF InItemMap(player.items.m[slot_key], item_map)
            THEN item_map[player.items.m[slot_key]]
            ELSE Placeholder(player.items.m[slot_key])])]

ReplaceAll(players, item_map) ==
    [i \in 1..Len(players) |-> ReplaceItemIds(players[i], item_map)]

\* line 823
InstanceShaped(first) ==
    "segments" \in DOMAIN first /\ "final_players" \in DOMAIN first

\* the player records lines 824-835 visit
PlayersFound(s2_data) ==
    IF s2_data = <<>> THEN {}
    ELSE IF InstanceShaped(s2_data[1])
    THEN UNION {
            {s2_data[i].final_players[j] :
                 j \in 1..Len(s2_data[i].final_players)}
            \cup UNION {
                {s2_data[i].segments[k].players[j] :
                     j \in 1..Len(s2_data[i].segments[k].players)} :
                 k \in 1..Len(s2_data[i].segments)} :
            i \in 1..Len(s2_data)}
    ELSE {s2_data[i] : i \in 1..Len(s2_data)}

\* lines 824-831 for one match
EnrichSegment(segment, item_map) ==
    [segment EXCEPT !.players = ReplaceAll(@, item_map)]

EnrichInstance(match, item_map) ==
    [match EXCEPT
        !.final_players = ReplaceAll(@, item_map),
        !.segments = [k \in 1..Len(match.segments) |->
                         EnrichSegment(match.segments[k], item_map)]]

\* lines 803-837
EnrichMatchesWithItemData(s2_data, file) ==
    LET loaded == LoadItemsMap(file)
    IN IF loaded.status = "raised" THEN loaded
       ELSE IF s2_data = <<>> THEN Returned(s2_data)
       ELSE IF \E player \in PlayersFound(s2_data) : ReplaceRaises(player)
       THEN RaisedAt("replace")
       ELSE IF InstanceShaped(s2_data[1])
       THEN Returned([i \in 1..Len(s2_data) |->
                         EnrichInstance(s2_data[i], loaded.value[1])])
       ELSE Returned(ReplaceAll(s2_data, loaded.value[1]))

\* lines 705-737
TransformMatches(rh_matches, file) ==
    LET s2_matches == PlayerRecords(rh_matches)
    IN IF s2_matches.status = "raised" THEN s2_matches
       ELSE EnrichMatchesWithItemData(s2_matches.value[1], file)

\* lines 739-801
TransformMatchesByInstance(rh_matches, file) ==
    LET s2_matches == InstanceRecords(rh_matches)
    IN IF s2_matches.status = "raised" THEN s2_matches
       ELSE EnrichMatchesWithItemData(s2_matches.value[1], file)

(***************************************************************************)
(* filter_matches                                                          *)
(***************************************************************************)
\* a field of a match record or a criterion of the filters: <<>> when the
\* key is absent (or the field is None), <<v>> when it holds v

\* a timestamp string by its form: "date" is YYYY-MM-DD, "naive" is
\* YYYY-MM-DDTHH:MM:SS, "z" the same with a trailing Z, "plus" and "minus"
\* the same with a +HH:MM or -HH:MM offset, "broken" is no ISO timestamp;
\* day counts the days and secs the seconds of the day
Timestamp(form, day, secs) == [form |-> form, day |-> day, secs |-> secs]

\* 'T' in text
HasT(ts) == ts.form \in {"naive", "z", "plus", "minus"}

\* lines 1241-1248: the Z is removed and the text cut at a '+' before
\* datetime.fromisoformat, so only a -HH:MM offset survives and gives an
\* aware datetime; ok = FALSE stands for ValueError
ParseStart(ts) ==
    [ok |-> ts.form # "broken", aware |-> ts.form = "minus",
     at |-> ts.day * 86400 + ts.secs]

\* lines 1251-1260 and 1283-1292: a text without 'T' is completed with the
\* time of day given (T00:00:00 or T23:59:59)
ParseBound(ts, secs_of_day) ==
    IF HasT(ts) THEN ParseStart(ts)
    ELSE [ok |-> ts.form = "date", aware |-> FALSE,
          at |-> ts.day * 86400 + secs_of_day]

\* lines 1238-1265 and 1270-1297: the date criterion excludes the match.
\* A ValueError of fromisoformat and the TypeError of comparing a naive
\* with an aware datetime are caught and exclude nothing
DateExcludes(start_ts, bound, secs_of_day, side) ==
    /\ start_ts # <<>>
    /\ ParseStart(start_ts[1]).ok
    /\ ParseBound(bound, secs_of_day).ok
    /\ ParseStart(start_ts[1]).aware = ParseBound(bound, secs_of_day).aware
    /\ IF side = "min"
       THEN \* line 1262: match_date < min_date
            ParseStart(start_ts[1]).at < ParseBound(bound, secs_of_day).at
       ELSE \* line 1294: match_date > max_date
            ParseStart(start_ts[1]).at > ParseBound(bound, secs_of_day).at

\* lines 1300-1309
WinOnlyExcludes_KeepsUndecided(match, win_only) ==
    /\ match.winning_team # <<>> /\ match.team_id # <<>>
    /\ \/ win_only /\ match.team_id # match.winning_team
       \/ ~win_only /\ match.team_id = match.winning_team
WinOnlyExcludes(match, win_only) ==
    IF match.winning_team # <<>> /\ match.team_id # <<>>
    THEN \/ win_only /\ match.team_id # match.winning_team
         \/ ~win_only /\ match.team_id = match.winning_team
    ELSE TRUE

\* basic_stats.get(key, default), basic_stats being match.get("basic_stats", {})
Stat(match, key, default) ==
    IF key \in DOMAIN match.basic_stats THEN match.basic_stats[key]
    ELSE default

\* lines 1327-1331: kda < min_kda, min_kda being the fraction num / den;
\* the quotient is compared exactly
KdaBelow(match, min_kda) ==
    (Stat(match, "Kills", 0) + Stat(match, "Assists", 0)) * min_kda.den
        < min_kda.num * Max(Stat(match, "Deaths", 1), 1)

\* "key" in filters
In(criterion) == criterion # <<>>

\* the criteria filter_matches knows
CriteriaKeys ==
    {"god_name", "mode", "map", "min_date", "max_date", "win_only",
     "min_kills", "min_deaths", "max_deaths", "min_assists", "min_kda",
     "min_damage", "min_healing"}

\* the condition under which the criterion `key`, present with value v,
\* sets include to False
Excludes(match, key, v) ==
    CASE key = "god_name" -> match.god_name # <<v>>
      [] key = "mode" -> match.mode # <<v>>
      [] key = "map" -> match.map # <<v>>
      [] key = "min_date" ->
             DateExcludes(match.match_start, v, 0, "min")
      [] key = "max_date" ->
             DateExcludes(match.match_start, v, 86399, "max")
      [] key = "win_only" -> WinOnlyExcludes(match, v)
      [] key = "min_kills" -> Stat(match, "Kills", 0) < v
      [] key = "min_deaths" -> Stat(match, "Deaths", 0) < v
      [] key = "max_deaths" -> Stat(match, "Deaths", 0) > v
      [] key = "min_assists" -> Stat(match, "Assists", 0) < v
      [] key = "min_kda" -> KdaBelow(match, v)
      [] key = "min_damage" -> Stat(match, "TotalDamage", 0) < v
      [] key = "min_healing" ->
             Stat(match, "TotalAllyHealing", 0)
                 + Stat(match, "TotalSelfHealing", 0) < v

\* lines 1220-1343: include starts True and each criterion present can
\* only set it to False
Include_Any(match, filters) ==
    \E key \in CriteriaKeys :
        In(filters[key]) /\ ~Excludes(match, key, filters[key][1])
Include(match, filters) ==
    \A key \in CriteriaKeys :
        ~(In(filters[key]) /\ Excludes(match, key, filters[key][1]))

RECURSIVE SelectMatches(_, _)
\* lines 1217-1344: the matches appended to filtered_matches
SelectMatches(matches, filters) ==
    IF matches = <<>> THEN <<>>
    ELSE IF Include(Head(matches), filters)
    THEN <<Head(matches)>> \o SelectMatches(Tail(matches), filters)
    ELSE SelectMatches(Tail(matches), filters)

\* the filters argument: None, or a dict given by its criteria
NoFilters == [t |-> "none", criteria |-> <<>>]
Filters(criteria) == [t |-> "dict", criteria |-> criteria]

\* line 1213: `not filters` holds of None and of the empty dict
FiltersFalsy_Never(filters) == FALSE
FiltersFalsy(filters) ==
    filters.t = "none" \/ \A k \in DOMAIN filters.criteria : ~In(filters.criteria[k])

\* lines 1192-1347.  Without the return of line 1214 the loop would test
\* `"god_name" in filters` on None, which raises TypeError
FilterMatches(matches, filters) ==
    IF FiltersFalsy(filters) THEN Returned(matches)
    ELSE IF filters.t = "none"
    THEN IF matches = <<>> THEN Returned(<<>>) ELSE Raised
    ELSE Returned(SelectMatches(matches, filters.criteria))

(***************************************************************************)
(* calculate_player_performance and flatten_player_lookup_response         *)
(***************************************************************************)
\* line 1397: match.get("team_id") == match.get("winning_team"); a missing
\* field gives None, and None == None holds
CountsAsWin(match) == match.team_id = match.winning_team

RECURSIVE Sum(_)
\* the sum of a list of numbers
Sum(numbers) ==
    IF numbers = <<>> THEN 0 ELSE Head(numbers) + Sum(Tail(numbers))

\* the values basic_stats.get(key, 0) of a list of matches
StatsOfAll(matches, key) ==
    [i \in 1..Len(matches) |-> Stat(matches[i], key, 0)]

\* the matches of a god (line 1415: a god_name that is None or empty opens
\* no entry)
MatchesOfGod(matches, god) ==
    SelectSeq(matches, LAMBDA match : match.god_name = <<god>>)

RECURSIVE GodsInOrder(_, _)
\* the keys of god_stats in insertion order: the gods by first appearance
GodsInOrder(matches, seen) ==
    IF matches = <<>> THEN <<>>
    ELSE IF Head(matches).god_name # <<>>
            /\ Head(matches).god_name[1] \notin seen
    THEN <<Head(matches).god_name[1]>>
             \o GodsInOrder(Tail(matches), seen \cup {Head(matches).god_name[1]})
    ELSE GodsInOrder(Tail(matches), seen)

\* lines 1415-1431 and 1472-1478 for one god; the quotients are kept as
\* fractions
GodStats(matches, god) ==
    LET mine == MatchesOfGod(matches, god)
        kills == Sum(StatsOfAll(mine, "Kills"))
        deaths == Sum(StatsOfAll(mine, "Deaths"))
        assists == Sum(StatsOfAll(mine, "Assists"))
    IN [matches |-> Len(mine),
        wins |-> Len(SelectSeq(mine, CountsAsWin)),
        kills |-> kills, deaths |-> deaths, assists |-> assists,
        avg_kda |-> [num |-> kills + assists, den |-> Max(deaths, 1)]]

\* a < b for fractions of positive denominators
Less(a, b) == a.num * b.den < b.num * a.den

\* max(list, key=...) of a non-empty list, keys[i] being the key of
\* list[i]: the first element whose key no element exceeds
FirstMax(list, keys) ==
    list[CHOOSE i \in 1..Len(list) :
             /\ \A j \in 1..Len(list) : ~Less(keys[i], keys[j])
             /\ \A j \in 1..(i - 1) : Less(keys[j], keys[i])]

\* line 1491
FavoriteGod(matches) ==
    LET gods == GodsInOrder(matches, {})
    IN IF gods = <<>> THEN <<>>
       ELSE <<FirstMax(gods,
                       [i \in 1..Len(gods) |->
                           [num |-> GodStats(matches, gods[i]).matches,
                            den |-> 1]])>>

\* lines 1496-1497
BestPerformingGod(matches) ==
    LET best_gods == SelectSeq(GodsInOrder(matches, {}),
                               LAMBDA g : GodStats(matches, g).matches >= 3)
    IN IF best_gods = <<>> THEN FavoriteGod(matches)
       ELSE <<FirstMax(best_gods,
                       [i \in 1..Len(best_gods) |->
                           GodStats(matches, best_gods[i]).avg_kda])>>

\* the {} of line 1375
EmptyResult == [total_matches |-> 0]

\* lines 1349-1508
CalculatePlayerPerformance(matches) ==
    IF matches = <<>> THEN EmptyResult
    ELSE LET total_matches == Len(matches)
             wins == Len(SelectSeq(matches, CountsAsWin))
             kills == Sum(StatsOfAll(matches, "Kills"))
             deaths == Sum(StatsOfAll(matches, "Deaths"))
             assists == Sum(StatsOfAll(matches, "Assists"))
             gods == GodsInOrder(matches, {})
         IN [total_matches |-> total_matches,
             wins |-> wins,
             losses |-> total_matches - wins,
             win_rate |-> [num |-> wins, den |-> total_matches],
             avg_kda |-> [num |-> kills + assists, den |-> Max(deaths, 1)],
             total_kills |-> kills,
             total_deaths |-> deaths,
             total_assists |-> assists,
             favorite_god |-> FavoriteGod(matches),
             best_performing_god |-> BestPerformingGod(matches),
             god_stats |-> [i \in 1..Len(gods) |->
                               [god |-> gods[i]] @@ GodStats(matches, gods[i])]]

\* player.copy(): a new dict with the entries of the player; `shared` says
\* whether a write to the result also changes the player of the response
PlayerCopy_Alias(player) == [entries |-> player, shared |-> TRUE]
PlayerCopy(player) == [entries |-> player, shared |-> FALSE]

\* lines 1568-1572 for one player of a group: the entry appended
FlatEntry(display_name, player) ==
    [PlayerCopy(player).entries EXCEPT !.display_name = <<display_name>>]

\* the player of the response after lines 1568-1572
PlayerAfter(display_name, player) ==
    IF PlayerCopy(player).shared THEN FlatEntry(display_name, player)
    ELSE player

RECURSIVE FlatGroups(_)
\* lines 1565-1574: a response's display_names is a list of dicts of one
\* display name each, [name, players] here
FlatGroups(display_names) ==
    IF display_names = <<>> THEN <<>>
    ELSE LET group == Head(display_names)
         IN [i \in 1..Len(group.players) |->
                 FlatEntry(group.name, group.players[i])]
                \o FlatGroups(Tail(display_names))

\* the response after the call
ResponseAfter(response) ==
    IF response.t # "dict" THEN response
    ELSE [response EXCEPT !.display_names =
             [g \in 1..Len(response.display_names) |->
                 [response.display_names[g] EXCEPT !.players =
                     [i \in 1..Len(response.display_names[g].players) |->
                         PlayerAfter(response.display_names[g].name,
                                     response.display_names[g].players[i])]]]]

\* lines 1539-1577: a response is None, or a dict whose display_names is
\* absent (an empty list here) or a list of groups
FlattenPlayerLookupResponse(response) ==
    IF response.t # "dict" \/ response.display_names = <<>> THEN <<>>
    ELSE FlatGroups(response.display_names)

(***************************************************************************)
(* A record of transform_matches as filter_matches and                     *)
(* calculate_player_performance read it                                    *)
(***************************************************************************)
\* match.get(key) of a normalized record: None (<<>>) for a null value
Field(raw) == IF raw = RawNull THEN <<>> ELSE <<raw>>

\* the record with the fields the two functions read; start_timestamp is
\* not among the raw fields explored
AsMatch(record) ==
    [match_id |-> Field(record.match_id), god_name |-> <<record.god_name>>,
     mode |-> Field(record.mode), map |-> Field(record.map),
     match_start |-> <<>>, team_id |-> Field(record.team_id),
     winning_team |-> Field(record.winning_team),
     basic_stats |-> record.basic_stats]

AsMatches(s2_matches) == [i \in 1..Len(s2_matches) |-> AsMatch(s2_matches[i])]

\* S2Match.__init__, for the constructor arguments explored
InitConfig ==
    /\ max_retries \in 0..MaxRetriesBound
    /\ rate_limit_delay \in RateLimitDelays
    /\ base_retry_delay \in BaseRetryDelays
    /\ max_retry_delay \in MaxRetryDelays

InitInstance ==
    /\ access_token = None
    /\ token_expiry = 0
    /\ token_grant = NoGrant
    /\ consecutive_rate_limits = 0
    /\ last_retry_timestamp = 0
    /\ now = 0
    /\ pc = "idle"
    /\ op = NoOp
    /\ retry_count = 0
    /\ attempts = <<>>
    /\ backoff_sleeps = 0
    /\ pace_sleeps = 0
    /\ last_sleep = NoSleep
    /\ outcome = "none"
    /\ sent = NoneSent
    /\ result = NoResult
    /\ calls = 0
    /\ first_result = <<>>

(***************************************************************************)
(* SpecExec: callers of _make_request_with_retry against a server that     *)
(* may answer each attempt in any way.                                     *)
(***************************************************************************)
InitExec ==
    /\ InitConfig
    /\ InitInstance
    /\ cache_enabled = TRUE
    /\ cache = <<>>
    /\ arg = <<>>
    /\ ret = <<>>

NextExec ==
    \/ calls < MaxCalls /\ MakeRequestWithRetry
    \/ \E h \in RetryAfterHeaders, u \in RandomDraws : Response429(h, u)
    \/ ResponseOK
    \/ ResponseError
    \/ TransportRaises429
    \/ TransportRaisesOther
    \/ ExecutorCallEnds
    \/ CallerResumes

SpecExec == InitExec /\ [][NextExec]_vars

\* line 210: the request in flight is answered, by a response or by an
\* exception of the transport
ServerAnswers ==
    \/ \E h \in RetryAfterHeaders, u \in RandomDraws : Response429(h, u)
    \/ ResponseOK
    \/ ResponseError
    \/ TransportRaises429
    \/ TransportRaisesOther

\* SpecExecLive: SpecExec where every request in flight is answered (the
\* sleeps of lines 137 and 244 end by themselves) and the executor's
\* return or raise reaches its caller
SpecExecLive ==
    SpecExec /\ WF_vars(ServerAnswers) /\ WF_vars(ExecutorCallEnds)

(***************************************************************************)
(* SpecToken: callers of get_access_token, one after another, while the    *)
(* clock advances; the token endpoint answers each attempt in any way and  *)
(* a successful response carries any of the bodies below.                  *)
(***************************************************************************)
\* the clock stops at MaxTime
MaxTime == 6

TokenValues == {"t1", "t2"}
ExpiresInValues ==
    { [kind |-> "absent", v |-> 0],
      [kind |-> "int", v |-> 5],
      [kind |-> "int", v |-> 10],
      [kind |-> "malformed", v |-> 0] }
TokenBodies == [access_token : TokenValues \cup {None},
                expires_in : ExpiresInValues]

InitToken ==
    /\ max_retries \in {0, 1}
    /\ rate_limit_delay = 0
    /\ base_retry_delay = 1000
    /\ max_retry_delay = 60000
    /\ InitInstance
    /\ cache_enabled = TRUE
    /\ cache = <<>>
    /\ arg = <<>>
    /\ ret = <<>>

NextToken ==
    \/ calls < MaxCalls /\ CallGetAccessToken
    \/ GetAccessTokenCached
    \/ GetAccessTokenRequest
    \/ Response429(NoHeader, 50)
    \/ ResponseOK
    \/ ResponseError
    \/ TransportRaises429
    \/ TransportRaisesOther
    \/ TokenRequestFails
    \/ \E body \in TokenBodies : TokenResponse(body)
    \/ Tick(MaxTime)
    \/ CallerResumes

SpecToken == InitToken /\ [][NextToken]_vars

(***************************************************************************)
(* SpecFetch: callers of the resource fetchers, one after another, while   *)
(* the clock advances; every endpoint answers each request in any way.     *)
(***************************************************************************)
\* public calls per behaviour
MaxFetchCalls == 2
\* the clock stops at MaxFetchTime
MaxFetchTime == 2
\* a listing ends within MaxPages pages
MaxPages == 2

Uuids == {"u1", "u2"}
PageSizes == {10}
MaxMatchesValues == {1, 2}
InstanceIds == {"i1"}
Platforms == {"Steam"}
PlatformUserIds == {"p1"}
DataValues == {"d1", "d2"}
Pages == [records : {<<>>, <<"m1", "m2">>}, cursor : {"", "c1"}]
\* the pages the server may send in answer to the n-th request of a call
PagesAfter(n) == {p \in Pages : p.cursor # "" => n < MaxPages}
FailureKinds == {"r429", "error", "x429", "xother"}
FetchTokenBodies ==
    [access_token : {"t1"},
     expires_in : {[kind |-> "int", v |-> 2], [kind |-> "absent", v |-> 0]}]

InitFetch ==
    /\ max_retries \in {0, 1}
    /\ rate_limit_delay = 100
    /\ base_retry_delay = 1000
    /\ max_retry_delay = 60000
    /\ InitInstance
    /\ cache_enabled \in BOOLEAN
    /\ cache = <<>>
    /\ arg = <<>>
    /\ ret = <<>>

\* the steps of get_access_token and of the request layer under a fetcher
NextRequestLayer ==
    \/ GetAccessTokenCached
    \/ GetAccessTokenRequest
    \/ TokenRequestFails
    \/ \E body \in FetchTokenBodies : TokenResponse(body)
    \/ Response429(NoHeader, 50)
    \/ ResponseOK
    \/ ResponseError
    \/ TransportRaises429
    \/ TransportRaisesOther
    \/ CacheHit
    \/ ResourceFails
    \/ CallerResumes

NextFetch ==
    \/ /\ calls < MaxFetchCalls
       /\ \E ps \in PageSizes, mm \in MaxMatchesValues :
              FetchMatchesByPlayerUuid("u1", ps, mm)
    \/ /\ calls < MaxFetchCalls
       /\ FetchPlayerStats("u1")
    \/ /\ calls < MaxFetchCalls
       /\ \E i \in InstanceIds, ps \in PageSizes :
              FetchMatchesByInstance(i, ps)
    \/ /\ calls < MaxFetchCalls
       /\ \E pf \in Platforms, id \in PlatformUserIds :
              FetchPlayerByPlatformUserId(pf, id)
    \/ NextRequestLayer
    \/ CacheMissDirect
    \/ CacheMissPaging
    \/ PlayerPageLoop
    \/ DirectOK
    \/ \E kind \in FailureKinds : DirectFails(kind)
    \/ \E data \in DataValues : SingleResponse(data)
    \/ \E page \in PagesAfter(sent.resource) : PlayerPageResponse(page)
    \/ \E page \in PagesAfter(sent.resource) : InstancePageResponse(page)
    \/ TickBetweenCalls(MaxFetchTime)

SpecFetch == InitFetch /\ [][NextFetch]_vars

(***************************************************************************)
(* SpecCache: repeated calls of fetch_matches_by_player_uuid and of        *)
(* fetch_player_stats on one instance with caching enabled.                *)
(***************************************************************************)
\* public calls per behaviour
MaxCacheCalls == 3

InitCache ==
    /\ max_retries = 1
    /\ rate_limit_delay = 0
    /\ base_retry_delay = 1000
    /\ max_retry_delay = 60000
    /\ InitInstance
    /\ cache_enabled = TRUE
    /\ cache = <<>>
    /\ arg = <<>>
    /\ ret = <<>>

NextCache ==
    \/ /\ calls < MaxCacheCalls
       /\ \E mm \in MaxMatchesValues : FetchMatchesByPlayerUuid("u1", 10, mm)
    \/ /\ calls < MaxCacheCalls
       /\ \E u \in Uuids : FetchPlayerStats(u)
    \/ NextRequestLayer
    \/ CacheMissDirect
    \/ CacheMissPaging
    \/ PlayerPageLoop
    \/ DirectOK
    \/ \E kind \in FailureKinds : DirectFails(kind)
    \/ \E data \in DataValues : SingleResponse(data)
    \/ \E page \in PagesAfter(sent.resource) : PlayerPageResponse(page)
    \/ TickBetweenCalls(MaxFetchTime)

SpecCache == InitCache /\ [][NextCache]_vars

(***************************************************************************)
(* SpecPages: one call after another of the two paginating fetchers on an  *)
(* instance without cache; the server sends any pages, and any failure.    *)
(***************************************************************************)
\* public calls per behaviour
MaxPagedCalls == 1

PagedMaxMatches == {0, 1, 2, 3}
RichPages == [records : {<<>>, <<"m1">>, <<"m2", "m3">>},
              cursor : {"", "c1", "c2"}]
\* the pages the server may send in answer to the n-th page request
RichPagesAfter(n) == {p \in RichPages : p.cursor # "" => n < MaxPages}
\* the page requests of the running call that have been answered
PagesServed == IF op.name \in Fetchers THEN Len(op.pages) ELSE 0

InitPages ==
    /\ max_retries \in {0, 1}
    /\ rate_limit_delay = 0
    /\ base_retry_delay = 1000
    /\ max_retry_delay = 60000
    /\ InitInstance
    /\ cache_enabled = FALSE
    /\ cache = <<>>
    /\ arg = <<>>
    /\ ret = <<>>

NextPages ==
    \/ /\ calls < MaxPagedCalls
       /\ \E mm \in PagedMaxMatches : FetchMatchesByPlayerUuid("u1", 10, mm)
    \/ /\ calls < MaxPagedCalls
       /\ FetchMatchesByInstance("i1", 10)
    \/ GetAccessTokenRequest
    \/ TokenRequestFails
    \/ \E body \in FetchTokenBodies : TokenResponse(body)
    \/ Response429(NoHeader, 50)
    \/ ResponseOK
    \/ ResponseError
    \/ TransportRaises429
    \/ TransportRaisesOther
    \/ CacheMissDirect
    \/ CacheMissPaging
    \/ PlayerPageLoop
    \/ DirectOK
    \/ \E kind \in FailureKinds : DirectFails(kind)
    \/ ResourceFails
    \/ \E page \in RichPagesAfter(PagesServed) : PlayerPageResponse(page)
    \/ \E page \in RichPagesAfter(PagesServed) : InstancePageResponse(page)
    \/ CallerResumes

SpecPages == InitPages /\ [][NextPages]_vars

(***************************************************************************)
(* SpecLookup: calls of fetch_player_with_displayname on an instance       *)
(* without cache; the lookup endpoint names any players and the            *)
(* linked-portals endpoint answers each request in any way.                *)
(***************************************************************************)
\* public calls per behaviour
MaxLookupCalls == 1
\* player objects in a lookup response
MaxPlayers == 3

DisplayNameLists == {<<"n1", "n2">>}
LookupPlatforms == {None, "Steam"}
PlayerIds == {<<>>, <<7>>}
RECURSIVE SeqsUpTo(_, _)
\* the sequences over S of length at most n
SeqsUpTo(S, n) ==
    IF n = 0 THEN {<<>>}
    ELSE SeqsUpTo(S, n - 1)
             \cup {Append(q, x) : q \in {r \in SeqsUpTo(S, n - 1) :
                                            Len(r) = n - 1}, x \in S}
BaseResults == {[i \in 1..Len(q) |-> PlayerObj(q[i])] :
                    q \in SeqsUpTo(PlayerIds, MaxPlayers)}
LinkedBodies == { [kind |-> "list", lp |-> <<>>],
                  [kind |-> "list", lp |-> <<"portal">>],
                  [kind |-> "nokey", lp |-> <<>>],
                  [kind |-> "notobject", lp |-> <<>>] }

InitLookup ==
    /\ max_retries = 1
    /\ rate_limit_delay = 0
    /\ base_retry_delay = 1000
    /\ max_retry_delay = 60000
    /\ InitInstance
    /\ cache_enabled = FALSE
    /\ cache = <<>>
    /\ arg = <<>>
    /\ ret = <<>>

NextLookup ==
    \/ /\ calls < MaxLookupCalls
       /\ \E names \in DisplayNameLists, pf \in LookupPlatforms,
             inc \in BOOLEAN : FetchPlayerWithDisplayname(names, pf, inc)
    \/ GetAccessTokenRequest
    \/ TokenRequestFails
    \/ \E body \in FetchTokenBodies : TokenResponse(body)
    \/ Response429(NoHeader, 50)
    \/ ResponseOK
    \/ ResponseError
    \/ TransportRaises429
    \/ TransportRaisesOther
    \/ CacheMissDirect
    \/ DirectOK
    \/ \E kind \in FailureKinds : DirectFails(kind)
    \/ ResourceFails
    \/ \E base \in BaseResults : BaseResponse(base)
    \/ LinkedLoop
    \/ LinkedFails
    \/ \E body \in LinkedBodies : LinkedResponse(body)
    \/ CallerResumes

SpecLookup == InitLookup /\ [][NextLookup]_vars

(***************************************************************************)
(* SpecAggregate: calls of get_full_player_data_by_displayname; the lookup *)
(* names any players and every call made for a UUID ends in any way.       *)
(***************************************************************************)
\* public calls per behaviour
MaxAggCalls == 2

AggMaxMatches == {1}
InfoPlayers == [player_uuid : {"", "u1"},
                linked_portals : {<<>>, <<"u2", "", "u3">>}]
InfoValues == {<<>>} \cup {<<p>> : p \in InfoPlayers}
                  \cup {<<p, q>> : p \in {[player_uuid |-> "u1",
                                          linked_portals |-> <<>>]},
                                  q \in InfoPlayers}
StatsValues == {"s1"}
\* what the server holds for a UUID: its matches and its ranks carry it
MatchesOf(u) == {<<>>, <<[player_uuid |-> u, match |-> "m1"]>>}
RanksOf(u) == { [kind |-> "list", ranks |-> <<[player_uuid |-> u]>>],
                [kind |-> "nokey", ranks |-> <<>>],
                [kind |-> "notobject", ranks |-> <<>>] }
RankFailureKinds == {"request", "other"}
\* the UUID the loop is at
CurrentUuid ==
    IF pc \in {"agg_stats", "agg_matches", "agg_ranks"}
    THEN op.uuids[op.idx + 1] ELSE ""

InitAggregate ==
    /\ max_retries = 1
    /\ rate_limit_delay = 0
    /\ base_retry_delay = 1000
    /\ max_retry_delay = 60000
    /\ InitInstance
    /\ cache_enabled = TRUE
    /\ cache = <<>>
    /\ arg = <<>>
    /\ ret = <<>>

NextAggregate ==
    \/ /\ calls < MaxAggCalls
       /\ \E mm \in AggMaxMatches :
              GetFullPlayerDataByDisplayname("Steam", "n1", mm)
    \/ AggCacheHit
    \/ AggCacheMiss
    \/ AggTokenReturns
    \/ AggCallRaises
    \/ \E info \in InfoValues :
           \E order \in Orders(AllPlayerUuids(info)) :
               AggLookupReturns(info, order)
    \/ AggLoop
    \/ \E stats_data \in StatsValues : AggStatsReturns(stats_data)
    \/ \E matches_data \in MatchesOf(CurrentUuid) :
           AggMatchesReturns(matches_data)
    \/ \E kind \in RankFailureKinds : AggRanksFails(kind)
    \/ \E ranks_data \in RanksOf(CurrentUuid) : AggRanksReturns(ranks_data)
    \/ CallerResumes

SpecAggregate == InitAggregate /\ [][NextAggregate]_vars

(***************************************************************************)
(* SpecTransformPlayer: transform_player applied on its own to raw player  *)
(* records whose custom_data is absent, null or a dict of up to MaxEntries *)
(* entries.                                                                *)
(***************************************************************************)
\* entries in a custom_data dict
MaxEntries == 2

StatKeys == {<<"Kills">>}
DottedKeys ==
    { <<"Gods", "Zeus">>, <<"Gods", "Zeus", "Damage">>,
      <<"Gods", "Zeus", "Ability", "Hits">>,
      <<"Items", "Sword">>, <<"Items", "Sword", "Damage">>,
      <<"Items", "Sword", "a", "b">>,
      <<"NPC", "Minion">>, <<"Ability", "Type", "Item", "X">>,
      <<"Custom", "Stat">>, <<"Wards">> }
StatRaws ==
    { RawNull, RawStr(<<>>), RawStr(<<"7">>), RawStr(<<"1", "2">>),
      RawStr(<<"-", "3">>), RawStr(<<"a">>), RawStr(<<"sup2">>),
      RawInt(5), RawObj }
JsonRaws ==
    { RawNull, RawStr(<<>>), RawStr(TextEmptyObject), RawStr(TextOneSlot),
      RawStr(TextTwoSlots), RawStr(TextArray), RawStr(TextNumber),
      RawStr(TextNull), RawStr(TextBroken), RawObj }
\* values of the dotted keys that are not digit strings
OtherDotted ==
    { [key |-> <<"Custom", "Stat">>, raw |-> RawStr(<<"a">>)],
      [key |-> <<"Wards">>, raw |-> RawInt(5)] }
Entries ==
    [key : StatKeys, raw : StatRaws]
        \cup [key : {<<"Items">>}, raw : JsonRaws]
        \cup [key : {<<"RolePreferences">>},
              raw : {RawNull, RawStr(TextOneSlot), RawStr(TextNull),
                     RawStr(TextBroken)}]
        \cup [key : DottedKeys, raw : {RawStr(<<"7">>)}]
        \cup OtherDotted
\* the dicts of at most MaxEntries entries: no key twice
Dicts ==
    {d \in SeqsUpTo(Entries, MaxEntries) :
        \A i, j \in 1..Len(d) : d[i].key = d[j].key => i = j}
CustomDataValues ==
    { [t |-> "absent", entries |-> <<>>], [t |-> "null", entries |-> <<>>] }
        \cup {[t |-> "dict", entries |-> d] : d \in Dicts}
RawPlayers ==
    [player_uuid : {RawStr(<<"u">>)}, team_id : {RawInt(1)},
     custom_data : CustomDataValues]

InitTransformPlayer ==
    /\ InitConfig
    /\ max_retries = 0
    /\ rate_limit_delay = 0
    /\ base_retry_delay = 1000
    /\ max_retry_delay = 60000
    /\ InitInstance
    /\ cache_enabled = TRUE
    /\ cache = <<>>
    /\ arg \in RawPlayers
    /\ ret = <<>>

ApplyTransformPlayer ==
    /\ ret = <<>>
    /\ ret' = <<TransformPlayer(arg)>>
    /\ UNCHANGED <<config, credential, cache, consecutive_rate_limits,
                   last_retry_timestamp, now, pc, op, retry_count, history,
                   sent, result, calls, first_result, arg>>

NextTransformPlayer == ApplyTransformPlayer

SpecTransformPlayer == InitTransformPlayer /\ [][NextTransformPlayer]_vars

(***************************************************************************)
(* SpecTransformMatches: transform_matches and                             *)
(* transform_matches_by_instance applied on their own to lists of up to    *)
(* MaxRecords raw records, with items.json in each state it can be found   *)
(* in.                                                                     *)
(***************************************************************************)
\* raw records in a list
MaxRecords == 2

ItemsEntry(chars) == [key |-> <<"Items">>, raw |-> RawStr(chars)]
KillsEntry(chars) == [key |-> <<"Kills">>, raw |-> RawStr(chars)]

\* custom_data of the players of player-match records
MatchPlayerCustomData ==
    { Null, Dict(<<ItemsEntry(TextOneSlot)>>),
      Dict(<<ItemsEntry(TextTwoSlots), KillsEntry(<<"a">>)>>),
      Dict(<<ItemsEntry(TextBroken)>>), Dict(<<ItemsEntry(TextArray)>>),
      Dict(<<KillsEntry(<<"sup2">>)>>) }

MapEntry == [key |-> <<"CurrentMap">>, raw |-> RawStr(<<"C">>)]

\* a player-match record
RawMatchRecord(custom_data, match) ==
    [player_uuid |-> RawStr(<<"u">>), team_id |-> RawInt(1),
     custom_data |-> custom_data, match |-> match]

\* every custom_data with `match` absent or complete, and a null `match`
\* and a null custom_data of `match` with a sound player
RawMatchRecords ==
    { RawMatchRecord(custom_data, match) :
          custom_data \in MatchPlayerCustomData,
          match \in {NoMatch, MatchObject(RawStr(<<"m">>), Dict(<<MapEntry>>))} }
      \cup
    { RawMatchRecord(Dict(<<ItemsEntry(TextOneSlot)>>), match) :
          match \in {NullMatch, MatchObject(RawStr(<<"m">>), Null)} }

RawPlayer(custom_data) ==
    [player_uuid |-> RawStr(<<"u">>), team_id |-> RawInt(1),
     custom_data |-> custom_data]
PlayerOneSlot == RawPlayer(Dict(<<ItemsEntry(TextOneSlot)>>))
PlayerTwoSlots == RawPlayer(Dict(<<ItemsEntry(TextTwoSlots)>>))
PlayerBare == RawPlayer(Absent)

RawSegment(players) == [match_segment |-> RawStr(<<"s">>), players |-> players]

\* a raw match of the instance endpoint
RawInstanceRecord(custom_data, segments, players) ==
    [match_id |-> RawStr(<<"m">>), custom_data |-> custom_data,
     segments |-> segments, players |-> players]

RawInstanceRecords ==
    { RawInstanceRecord(custom_data, segments, List(<<PlayerOneSlot>>)) :
          custom_data \in {Null, Dict(<<MapEntry>>)},
          segments \in
              { Absent, Null, List(<<RawSegment(Null)>>),
                List(<<RawSegment(List(<<PlayerTwoSlots, PlayerBare>>))>>) } }
      \cup
    { RawInstanceRecord(Dict(<<MapEntry>>), Absent, players) :
          players \in {Absent, Null} }

\* item objects of items.json
Sword == [Item_Id |-> "a", DisplayName |-> "Sword", Tier |-> "I"]
SwordAgain == [Item_Id |-> "a", DisplayName |-> "Sword", Tier |-> "II"]
Nameless == [Item_Id |-> "", DisplayName |-> "Nameless", Tier |-> "I"]

ItemsFiles ==
    { ItemsFile("missing", <<>>), ItemsFile("unreadable", <<>>),
      ItemsFile("invalid", <<>>), ItemsFile("object", <<>>),
      ItemsFile("array", <<Sword, Nameless, SwordAgain>>) }

TransformCalls ==
    [fn : {"transform_matches"},
     rh_matches : SeqsUpTo(RawMatchRecords, MaxRecords), file : ItemsFiles]
      \cup
    [fn : {"transform_matches_by_instance"},
     rh_matches : SeqsUpTo(RawInstanceRecords, MaxRecords), file : ItemsFiles]

InitTransformMatches ==
    /\ InitConfig
    /\ max_retries = 0
    /\ rate_limit_delay = 0
    /\ base_retry_delay = 1000
    /\ max_retry_delay = 60000
    /\ InitInstance
    /\ cache_enabled = TRUE
    /\ cache = <<>>
    /\ arg \in TransformCalls
    /\ ret = <<>>

ApplyTransformMatches ==
    /\ ret = <<>>
    /\ arg.fn = "transform_matches"
    /\ ret' = <<TransformMatches(arg.rh_matches, arg.file)>>
    /\ UNCHANGED <<config, credential, cache, consecutive_rate_limits,
                   last_retry_timestamp, now, pc, op, retry_count, history,
                   sent, result, calls, first_result, arg>>

ApplyTransformMatchesByInstance ==
    /\ ret = <<>>
    /\ arg.fn = "transform_matches_by_instance"
    /\ ret' = <<TransformMatchesByInstance(arg.rh_matches, arg.file)>>
    /\ UNCHANGED <<config, credential, cache, consecutive_rate_limits,
                   last_retry_timestamp, now, pc, op, retry_count, history,
                   sent, result, calls, first_result, arg>>

NextTransformMatches ==
    \/ ApplyTransformMatches
    \/ ApplyTransformMatchesByInstance

SpecTransformMatches == InitTransformMatches /\ [][NextTransformMatches]_vars

(***************************************************************************)
(* SpecFilter: filter_matches applied on its own to lists of up to         *)
(* MaxMatches match records and to filters of up to MaxCriteria criteria.  *)
(***************************************************************************)
\* match records in a list
MaxMatches == 2
\* criteria in the filters
MaxCriteria == 2

MatchRecord(match_id, god_name, mode, match_start, team_id, winning_team,
            basic_stats) ==
    [match_id |-> match_id, god_name |-> god_name, mode |-> mode,
     map |-> <<"Conquest Map">>, match_start |-> match_start,
     team_id |-> team_id, winning_team |-> winning_team,
     basic_stats |-> basic_stats]

StatsOf(kills, deaths, assists, damage, healing) ==
    [Kills |-> kills, Deaths |-> deaths, Assists |-> assists,
     TotalDamage |-> damage, TotalAllyHealing |-> healing,
     TotalSelfHealing |-> healing]

\* a win, a loss, a record without winning_team, one without team_id and
\* without basic_stats, one whose date has an offset, one whose date is
\* broken
FilterRecords ==
    { MatchRecord("m1", <<"Thor">>, <<"Conquest">>,
                  <<Timestamp("z", 2, 43200)>>, <<1>>, <<1>>,
                  StatsOf(10, 0, 4, 900, 2)),
      MatchRecord("m2", <<"Anubis">>, <<"Arena">>,
                  <<Timestamp("naive", 3, 0)>>, <<2>>, <<1>>,
                  StatsOf(2, 4, 5, 300, 0)),
      MatchRecord("m3", <<"Thor">>, <<"Arena">>,
                  <<Timestamp("date", 1, 0)>>, <<1>>, <<>>,
                  StatsOf(5, 2, 0, 500, 1)),
      MatchRecord("m4", <<>>, <<"Conquest">>, <<>>, <<>>, <<2>>, <<>>),
      MatchRecord("m5", <<"Thor">>, <<>>,
                  <<Timestamp("minus", 1, 0)>>, <<2>>, <<2>>,
                  StatsOf(0, 1, 9, 0, 0)),
      MatchRecord("m6", <<"Anubis">>, <<"Conquest">>,
                  <<Timestamp("broken", 0, 0)>>, <<1>>, <<2>>,
                  StatsOf(5, 5, 5, 500, 5)) }

\* the criteria a caller gives, one value or two for each key
CriterionValues ==
    [god_name |-> {"Thor"}, mode |-> {"Conquest"}, map |-> {"Conquest Map"},
     min_date |-> {Timestamp("date", 2, 0), Timestamp("broken", 0, 0)},
     max_date |-> {Timestamp("date", 2, 0), Timestamp("naive", 2, 43200)},
     win_only |-> {TRUE, FALSE},
     min_kills |-> {5}, min_deaths |-> {1}, max_deaths |-> {2},
     min_assists |-> {5},
     min_kda |-> {[num |-> 2, den |-> 1], [num |-> 5, den |-> 2]},
     min_damage |-> {500}, min_healing |-> {2}]

\* no criterion
NoCriteria == [key \in CriteriaKeys |-> <<>>]

RECURSIVE CriteriaUpTo(_)
\* the dicts of at most n criteria
CriteriaUpTo(n) ==
    IF n = 0 THEN {NoCriteria}
    ELSE CriteriaUpTo(n - 1) \cup
         UNION { { [c EXCEPT ![key] = <<v>>] :
                       c \in CriteriaUpTo(n - 1), v \in CriterionValues[key] } :
                 key \in CriteriaKeys }

FilterArguments ==
    {NoFilters} \cup {Filters(c) : c \in CriteriaUpTo(MaxCriteria)}

InitFilter ==
    /\ InitConfig
    /\ max_retries = 0
    /\ rate_limit_delay = 0
    /\ base_retry_delay = 1000
    /\ max_retry_delay = 60000
    /\ InitInstance
    /\ cache_enabled = TRUE
    /\ cache = <<>>
    /\ arg \in [matches : SeqsUpTo(FilterRecords, MaxMatches),
                filters : FilterArguments]
    /\ ret = <<>>

ApplyFilterMatches ==
    /\ ret = <<>>
    /\ ret' = <<FilterMatches(arg.matches, arg.filters)>>
    /\ UNCHANGED <<config, credential, cache, consecutive_rate_limits,
                   last_retry_timestamp, now, pc, op, retry_count, history,
                   sent, result, calls, first_result, arg>>

NextFilter == ApplyFilterMatches

SpecFilter == InitFilter /\ [][NextFilter]_vars

(***************************************************************************)
(* SpecAnalysis: calculate_player_performance applied to lists of up to    *)
(* MaxPlayed match records, and flatten_player_lookup_response applied to  *)
(* responses of up to MaxGroups display-name groups.                       *)
(***************************************************************************)
\* match records given to calculate_player_performance
MaxPlayed == 3
\* display-name groups in a lookup response
MaxGroups == 2

Played(god_name, team_id, winning_team, basic_stats) ==
    [god_name |-> god_name, team_id |-> team_id,
     winning_team |-> winning_team, basic_stats |-> basic_stats]

Kda(kills, deaths, assists) ==
    [Kills |-> kills, Deaths |-> deaths, Assists |-> assists]

\* a win and a loss of each of two gods, a record without team_id, and a
\* record with no field at all
PlayedRecords ==
    { Played(<<"Thor">>, <<1>>, <<1>>, Kda(10, 0, 4)),
      Played(<<"Thor">>, <<2>>, <<1>>, Kda(1, 5, 2)),
      Played(<<"Anubis">>, <<2>>, <<2>>, Kda(3, 2, 1)),
      Played(<<"Anubis">>, <<1>>, <<2>>, Kda(0, 0, 0)),
      Played(<<"Thor">>, <<>>, <<1>>, Kda(2, 2, 2)),
      Played(<<>>, <<>>, <<>>, <<>>) }

LookupPlayer(player_uuid) ==
    [player_uuid |-> player_uuid, display_name |-> <<>>]
Group(name, players) == [name |-> name, players |-> players]

LookupGroups ==
    { Group(name, players) :
          name \in {"n1", "n2"},
          players \in { <<>>, <<LookupPlayer("u1")>>,
                        <<LookupPlayer("u1"), LookupPlayer("u2")>> } }

LookupResponses ==
    { [t |-> "none", display_names |-> <<>>] }
        \cup { [t |-> "dict", display_names |-> groups] :
                   groups \in SeqsUpTo(LookupGroups, MaxGroups) }

AnalysisCalls ==
    [fn : {"calculate_player_performance"},
     input : SeqsUpTo(PlayedRecords, MaxPlayed)]
      \cup
    [fn : {"flatten_player_lookup_response"}, input : LookupResponses]

InitAnalysis ==
    /\ InitConfig
    /\ max_retries = 0
    /\ rate_limit_delay = 0
    /\ base_retry_delay = 1000
    /\ max_retry_delay = 60000
    /\ InitInstance
    /\ cache_enabled = TRUE
    /\ cache = <<>>
    /\ arg \in AnalysisCalls
    /\ ret = <<>>

ApplyCalculatePlayerPerformance ==
    /\ ret = <<>>
    /\ arg.fn = "calculate_player_performance"
    /\ ret' = <<CalculatePlayerPerformance(arg.input)>>
    /\ UNCHANGED <<config, credential, cache, consecutive_rate_limits,
                   last_retry_timestamp, now, pc, op, retry_count, history,
                   sent, result, calls, first_result, arg>>

\* the call leaves its result and the response as it is after the call
ApplyFlattenPlayerLookupResponse ==
    /\ ret = <<>>
    /\ arg.fn = "flatten_player_lookup_response"
    /\ ret' = <<FlattenPlayerLookupResponse(arg.input),
                ResponseAfter(arg.input)>>
    /\ UNCHANGED <<config, credential, cache, consecutive_rate_limits,
                   last_retry_timestamp, now, pc, op, retry_count, history,
                   sent, result, calls, first_result, arg>>

NextAnalysis ==
    \/ ApplyCalculatePlayerPerformance
    \/ ApplyFlattenPlayerLookupResponse

SpecAnalysis == InitAnalysis /\ [][NextAnalysis]_vars

(***************************************************************************)
(* SpecFailure: calls of the five caching fetchers on one instance with    *)
(* caching enabled; any request of a call may fail.                        *)
(***************************************************************************)
\* public calls per behaviour
MaxFailCalls == 2

Unranked == [rank_id |-> <<>>, rank_name |-> <<>>, rank_description |-> <<>>,
             custom_data |-> <<>>]
Ranked == [Unranked EXCEPT !.rank_id = <<"r1">>]
\* the player_ranks lists the server may send
RankLists == {<<>>, <<Unranked>>, <<Ranked>>, <<Unranked, Ranked>>}
\* the rank_configs lists
ConfigLists == {<<>>, <<[name |-> "Gold", description |-> "top"]>>}
\* the player_ranks lists of the single rank response
SingleRankLists == {<<>>, <<[custom_data |-> <<>>]>>,
                    <<[custom_data |-> <<"cd">>]>>}

InitFailure ==
    /\ max_retries = 0
    /\ rate_limit_delay = 0
    /\ base_retry_delay = 1000
    /\ max_retry_delay = 60000
    /\ InitInstance
    /\ cache_enabled = TRUE
    /\ cache = <<>>
    /\ arg = <<>>
    /\ ret = <<>>

NextFailure ==
    \/ /\ calls < MaxFailCalls
       /\ FetchMatchesByPlayerUuid("u1", 10, 3)
    \/ /\ calls < MaxFailCalls
       /\ FetchPlayerStats("u1")
    \/ /\ calls < MaxFailCalls
       /\ FetchMatchesByInstance("i1", 10)
    \/ /\ calls < MaxFailCalls
       /\ FetchPlayerByPlatformUserId("Steam", "p1")
    \/ /\ calls < MaxFailCalls
       /\ FetchPlayerRanksByUuid("t1", "u1")
    \/ NextRequestLayer
    \/ CacheMissDirect
    \/ CacheMissPaging
    \/ PlayerPageLoop
    \/ DirectOK
    \/ \E kind \in FailureKinds : DirectFails(kind)
    \/ \E data \in DataValues : SingleResponse(data)
    \/ \E page \in PagesAfter(sent.resource) : PlayerPageResponse(page)
    \/ \E page \in PagesAfter(sent.resource) : InstancePageResponse(page)
    \/ \E player_ranks \in RankLists : RanksListResponse(player_ranks)
    \/ \E configs_list \in ConfigLists : RanksConfigResponse(configs_list)
    \/ \E sr_list \in SingleRankLists : RanksSingleResponse(sr_list)

SpecFailure == InitFailure /\ [][NextFailure]_vars

(***************************************************************************)
(* SpecKeys: calls of fetch_player_by_platform_user_id and of              *)
(* fetch_player_with_displayname (without linked portals) whose argument   *)
(* values contain '_' and ',', on one instance with caching enabled.       *)
(***************************************************************************)
\* public calls per behaviour
MaxKeyCalls == 2

KeyPlatforms == {"a", "a_b"}
KeyPlatformUserIds == {"c", "b_c"}
KeyDisplayNameLists == {<<"a,b">>, <<"a", "b">>}

InitKeys ==
    /\ max_retries = 0
    /\ rate_limit_delay = 0
    /\ base_retry_delay = 1000
    /\ max_retry_delay = 60000
    /\ InitInstance
    /\ cache_enabled = TRUE
    /\ cache = <<>>
    /\ arg = <<>>
    /\ ret = <<>>

NextKeys ==
    \/ /\ calls < MaxKeyCalls
       /\ \E pf \in KeyPlatforms, id \in KeyPlatformUserIds :
              FetchPlayerByPlatformUserId(pf, id)
    \/ /\ calls < MaxKeyCalls
       /\ \E names \in KeyDisplayNameLists :
              FetchPlayerWithDisplayname(names, "Steam", FALSE)
    \/ NextRequestLayer
    \/ CacheMissDirect
    \/ DirectOK
    \/ \E kind \in FailureKinds : DirectFails(kind)
    \/ \E data \in DataValues : SingleResponse(data)
    \/ \E base \in BaseResults : BaseResponse(base)

SpecKeys == InitKeys /\ [][NextKeys]_vars

(***************************************************************************)
(* SpecTermination: calls of the paginating fetchers on an instance        *)
(* without cache.  The server may send pages without records that carry a  *)
(* cursor; it sends an empty cursor at the latest in answer to request     *)
(* MaxBarrenPages + 1.  SpecTerminationLive adds that the program keeps    *)
(* running and that every request is answered.                             *)
(***************************************************************************)
\* public calls per behaviour
MaxTerminationCalls == 2
\* page responses with a cursor per call
MaxBarrenPages == 3

TerminationMaxMatches == {0, 1, 2}
TerminationPages == [records : {<<>>, <<"m1">>}, cursor : {"", "c1"}]
\* the pages the server may send when it has answered n page requests
TerminationPagesAfter(n) ==
    {p \in TerminationPages : p.cursor # "" => n < MaxBarrenPages}

InitTermination ==
    /\ max_retries = 0
    /\ rate_limit_delay = 0
    /\ base_retry_delay = 1000
    /\ max_retry_delay = 60000
    /\ InitInstance
    /\ cache_enabled = FALSE
    /\ cache = <<>>
    /\ arg = <<>>
    /\ ret = <<>>

\* the steps of a call under way
TerminationSteps ==
    \/ GetAccessTokenCached
    \/ GetAccessTokenRequest
    \/ TokenRequestFails
    \/ \E body \in FetchTokenBodies : TokenResponse(body)
    \/ Response429(NoHeader, 50)
    \/ ResponseOK
    \/ ResponseError
    \/ TransportRaises429
    \/ TransportRaisesOther
    \/ CacheMissDirect
    \/ CacheMissPaging
    \/ PlayerPageLoop
    \/ DirectOK
    \/ \E kind \in FailureKinds : DirectFails(kind)
    \/ ResourceFails
    \/ \E page \in TerminationPagesAfter(PagesServed) :
           PlayerPageResponse(page)
    \/ \E page \in TerminationPagesAfter(PagesServed) :
           InstancePageResponse(page)

NextTermination ==
    \/ /\ calls < MaxTerminationCalls
       /\ \E mm \in TerminationMaxMatches :
              FetchMatchesByPlayerUuid("u1", 10, mm)
    \/ /\ calls < MaxTerminationCalls
       /\ FetchMatchesByInstance("i1", 10)
    \/ TerminationSteps
    \/ CallerResumes

SpecTermination == InitTermination /\ [][NextTermination]_vars

SpecTerminationLive == SpecTermination /\ WF_vars(TerminationSteps)

(***************************************************************************)
(* SpecDegraded: repeated calls of fetch_player_with_displayname (with     *)
(* linked portals) and of get_full_player_data_by_displayname on one       *)
(* instance with caching enabled; linked-portals requests and rank         *)
(* fetches may fail.                                                       *)
(***************************************************************************)
\* public calls per behaviour
MaxDegradedCalls == 2

DegradedBases == {<<PlayerObj(<<7>>)>>, <<PlayerObj(<<>>), PlayerObj(<<7>>)>>}
DegradedInfos == {<<[player_uuid |-> "u1", linked_portals |-> <<>>]>>,
                  <<[player_uuid |-> "u1", linked_portals |-> <<"u2">>]>>}

InitDegraded ==
    /\ max_retries = 0
    /\ rate_limit_delay = 0
    /\ base_retry_delay = 1000
    /\ max_retry_delay = 60000
    /\ InitInstance
    /\ cache_enabled = TRUE
    /\ cache = <<>>
    /\ arg = <<>>
    /\ ret = <<>>

NextDegraded ==
    \/ /\ calls < MaxDegradedCalls
       /\ FetchPlayerWithDisplayname(<<"n1">>, "Steam", TRUE)
    \/ /\ calls < MaxDegradedCalls
       /\ GetFullPlayerDataByDisplayname("Steam", "n1", 1)
    \/ NextRequestLayer
    \/ CacheMissDirect
    \/ DirectOK
    \/ \E kind \in FailureKinds : DirectFails(kind)
    \/ \E base \in DegradedBases : BaseResponse(base)
    \/ LinkedLoop
    \/ LinkedFails
    \/ \E body \in LinkedBodies : LinkedResponse(body)
    \/ AggCacheHit
    \/ AggCacheMiss
    \/ AggTokenReturns
    \/ AggCallRaises
    \/ \E info \in DegradedInfos :
           \E order \in Orders(AllPlayerUuids(info)) :
               AggLookupReturns(info, order)
    \/ AggLoop
    \/ \E stats_data \in StatsValues : AggStatsReturns(stats_data)
    \/ \E matches_data \in MatchesOf(CurrentUuid) :
           AggMatchesReturns(matches_data)
    \/ \E kind \in RankFailureKinds : AggRanksFails(kind)
    \/ \E ranks_data \in RanksOf(CurrentUuid) : AggRanksReturns(ranks_data)

SpecDegraded == InitDegraded /\ [][NextDegraded]_vars

(***************************************************************************)
(* SpecPipeline: transform_matches applied to lists of up to               *)
(* MaxPipelineRecords raw records whose team_id and WinningTeam are of any *)
(* of the JSON types met, then filter_matches with win_only True and       *)
(* calculate_player_performance applied to its result.                     *)
(***************************************************************************)
\* raw records in a list
MaxPipelineRecords == 2

WinningTeamEntry(raw) == [key |-> <<"WinningTeam">>, raw |-> raw]

PipelineRecords ==
    { [player_uuid |-> RawStr(<<"u">>), team_id |-> team_id,
       custom_data |-> Dict(<<KillsEntry(<<"7">>)>>),
       match |-> MatchObject(RawStr(<<"m">>), Dict(custom_data))] :
          team_id \in {RawNull, RawInt(1), RawInt(2)},
          custom_data \in
              {<<MapEntry>>} \cup
              {<<WinningTeamEntry(raw)>> :
                   raw \in {RawStr(<<"1">>), RawStr(<<"2">>), RawInt(1)}} }

WinOnly == Filters([NoCriteria EXCEPT !["win_only"] = <<TRUE>>])

NotRun == [s2_matches |-> <<>>, kept |-> <<>>, performance |-> <<>>]

InitPipeline ==
    /\ InitConfig
    /\ max_retries = 0
    /\ rate_limit_delay = 0
    /\ base_retry_delay = 1000
    /\ max_retry_delay = 60000
    /\ InitInstance
    /\ cache_enabled = TRUE
    /\ cache = <<>>
    /\ arg \in SeqsUpTo(PipelineRecords, MaxPipelineRecords)
    /\ ret = NotRun

\* s2_matches = sdk.transform_matches(rh_matches), items.json missing
PipelineTransform ==
    /\ ret.s2_matches = <<>>
    /\ ret' = [ret EXCEPT !.s2_matches =
                              <<TransformMatches(arg, ItemsFile("missing", <<>>))>>]
    /\ UNCHANGED <<config, credential, cache, consecutive_rate_limits,
                   last_retry_timestamp, now, pc, op, retry_count, history,
                   sent, result, calls, first_result, arg>>

\* sdk.filter_matches(s2_matches, {"win_only": True})
PipelineFilter ==
    /\ ret.s2_matches # <<>>
    /\ ret.s2_matches[1].status = "returned"
    /\ ret.kept = <<>>
    /\ ret' = [ret EXCEPT !.kept =
                   <<FilterMatches(AsMatches(ret.s2_matches[1].value[1]),
                                   WinOnly)>>]
    /\ UNCHANGED <<config, credential, cache, consecutive_rate_limits,
                   last_retry_timestamp, now, pc, op, retry_count, history,
                   sent, result, calls, first_result, arg>>

\* sdk.calculate_player_performance(s2_matches)
PipelinePerformance ==
    /\ ret.s2_matches # <<>>
    /\ ret.s2_matches[1].status = "returned"
    /\ ret.performance = <<>>
    /\ ret' = [ret EXCEPT !.performance =
                   <<CalculatePlayerPerformance(
                         AsMatches(ret.s2_matches[1].value[1]))>>]
    /\ UNCHANGED <<config, credential, cache, consecutive_rate_limits,
                   last_retry_timestamp, now, pc, op, retry_count, history,
                   sent, result, calls, first_result, arg>>

NextPipeline ==
    \/ PipelineTransform
    \/ PipelineFilter
    \/ PipelinePerformance

SpecPipeline == InitPipeline /\ [][NextPipeline]_vars

(***************************************************************************)
(* SpecWrappers: get_matches_by_player_uuid and get_matches_by_instance    *)
(* called up to MaxWrapperCalls times on one instance. Python hands dicts  *)
(* round by reference, so the records live in a store of cells addressed   *)
(* by their position, and the cache and the results hold lists of          *)
(* addresses. `ret` is the store. `arg` holds the state of items.json and, *)
(* for the properties, each raw record as the fetch call received it and   *)
(* each raw list as the fetch call stored it. The fetch calls are taken    *)
(* by what the wrappers see of them: the exception of a failed token or    *)
(* page request (the token is obtained before the cache is consulted,      *)
(* lines 299 and 402), the cached list, or the list the pages gave, stored *)
(* under the raw key.                                                      *)
(***************************************************************************)
\* wrapper calls in a behaviour
MaxWrapperCalls == 2
\* raw records a fetch receives
MaxWrapperRecords == 1

\* lines 918 and 973
S2MatchesPlayerKey(player_uuid, page_size, max_matches) ==
    "s2_matches_player_" \o player_uuid \o "_" \o ToString(page_size)
        \o "_" \o ToString(max_matches)
S2MatchesInstanceKey(instance_id, page_size) ==
    "s2_matches_instance_" \o instance_id \o "_" \o ToString(page_size)

\* a dict of the store: a raw record of the API, or a record of
\* transform_matches / transform_matches_by_instance with the number of
\* times _enrich_matches_with_item_data has visited it
RawCell(record) == [kind |-> "raw", record |-> record, enriched |-> 0]
S2Cell(record, enriched) ==
    [kind |-> "s2", record |-> record, enriched |-> enriched]

Addresses(refs) == {refs[i] : i \in 1..Len(refs)}

RECURSIVE Highest(_, _)
Highest(refs, n) ==
    IF n = 0 THEN 0 ELSE Max(refs[n], Highest(refs, n - 1))

\* the store with cells[i] at address refs[i]
Write(store, refs, cells) ==
    [a \in 1..Max(Len(store), Highest(refs, Len(refs))) |->
        IF a \in Addresses(refs)
        THEN cells[CHOOSE i \in 1..Len(refs) : refs[i] = a]
        ELSE store[a]]

\* variant: transform_player fills the dict it was given
TransformedInto_InPlace(raw_ref, fresh_ref) == raw_ref

\* lines 616-623 and 718: `transformed = {...}` is a new dict, and the
\* fields are written to it
TransformedInto(raw_ref, fresh_ref) == fresh_ref

\* lines 718-736 and 752-801 on the raw records at refs: the store with the
\* new records, and their addresses
TransformInStore(name, store, refs, file) ==
    LET rh_matches == [i \in 1..Len(refs) |-> store[refs[i]].record]
        records == IF name = "get_matches_by_player_uuid"
                   THEN PlayerRecords(rh_matches)
                   ELSE InstanceRecords(rh_matches)
        s2_refs == [i \in 1..Len(refs) |->
                       TransformedInto(refs[i], Len(store) + i)]
        built == Write(store, s2_refs,
                       [i \in 1..Len(refs) |->
                           S2Cell(records.value[1][i], 0)])
        enriched == EnrichMatchesWithItemData(records.value[1], file)
    IN IF records.status = "raised"
       THEN [status |-> "raised", store |-> store, refs |-> <<>>]
       ELSE IF enriched.status = "raised"
       THEN [status |-> "raised", store |-> built, refs |-> <<>>]
       ELSE [status |-> "returned",
             store |-> Write(built, s2_refs,
                             [i \in 1..Len(refs) |->
                                 S2Cell(enriched.value[1][i],
                                        built[s2_refs[i]].enriched + 1)]),
             refs |-> s2_refs]

\* variant: a cached result is enriched again before it is returned
ServeCached_Enriched(store, refs) ==
    [a \in 1..Len(store) |->
        IF a \in Addresses(refs)
        THEN [store[a] EXCEPT !.enriched = @ + 1]
        ELSE store[a]]

\* lines 919-921 and 974-976: `return self.cache[cache_key]`
ServeCached(store, refs) == store

\* the ghost record of the raw cells: <<record>> at the address of a raw
\* record as the fetch received it, <<>> at any other address
Received(raw, store, records) ==
    [a \in 1..(Len(store) + Len(records)) |->
        IF a <= Len(raw) THEN raw[a]
        ELSE IF a <= Len(store) THEN <<>>
        ELSE <<records[a - Len(store)]>>]

\* a wrapper call: `net` is what the network gives the fetch, an exception
\* (of the token request, or of a page request when the raw list is not
\* cached) or the records of the pages
WrapperCall(name, key, raw_key, net) ==
    /\ calls < MaxWrapperCalls
    /\ calls' = calls + 1
    /\ IF CacheHas(key)
       THEN /\ result' = Returned(cache[key])
            /\ ret' = ServeCached(ret, cache[key])
            /\ op' = [name |-> name, stage |-> "served"]
            /\ UNCHANGED <<cache, arg>>
       ELSE IF net.status = "raised"
       THEN /\ result' = Raised
            /\ op' = [name |-> name, stage |-> "fetch"]
            /\ UNCHANGED <<cache, arg, ret>>
       ELSE LET hit == CacheHas(raw_key)
                records == IF hit THEN <<>> ELSE net.value[1]
                refs == IF hit THEN cache[raw_key]
                        ELSE [i \in 1..Len(records) |-> Len(ret) + i]
                fetched == ret \o [i \in 1..Len(records) |-> RawCell(records[i])]
                cache1 == IF hit THEN cache ELSE CacheStore(cache, raw_key, refs)
                stored1 == IF hit \/ ~cache_enabled THEN arg.stored
                           ELSE (raw_key :> refs) @@ arg.stored
                t == TransformInStore(name, fetched, refs, arg.file)
            IN IF name = "get_matches_by_instance" /\ refs = <<>>
               THEN /\ result' = Returned(<<>>)
                    /\ op' = [name |-> name, stage |-> "empty"]
                    /\ cache' = cache1
                    /\ ret' = fetched
                    /\ arg' = [arg EXCEPT
                                  !.raw = Received(@, ret, records),
                                  !.stored = stored1]
               ELSE /\ result' = IF t.status = "raised" THEN Raised
                                 ELSE Returned(t.refs)
                    /\ op' = [name |-> name,
                              stage |-> IF t.status = "raised"
                                        THEN "transform" ELSE "built"]
                    /\ cache' = IF t.status = "raised" THEN cache1
                                ELSE CacheStore(cache1, key, t.refs)
                    /\ ret' = t.store
                    /\ arg' = [arg EXCEPT
                                  !.raw = Received(@, ret, records)
                                              \o [a \in 1..(Len(t.store)
                                                      - Len(fetched)) |-> <<>>],
                                  !.stored = stored1]
    /\ UNCHANGED <<config, credential, consecutive_rate_limits,
                   last_retry_timestamp, now, pc, retry_count, history,
                   sent, first_result>>

WrapperPlayerUuids == {"u1"}
WrapperInstanceIds == {"i1"}

WrapperPlayerRecords ==
    { RawMatchRecord(Dict(<<ItemsEntry(chars)>>),
                     MatchObject(RawStr(<<"m">>), Dict(<<MapEntry>>))) :
          chars \in {TextOneSlot, TextTwoSlots, TextArray} }

WrapperInstanceRecords ==
    { RawInstanceRecord(
          Dict(<<MapEntry>>),
          List(<<RawSegment(List(<<PlayerTwoSlots, PlayerBare>>))>>),
          List(<<PlayerOneSlot>>)),
      RawInstanceRecord(Dict(<<MapEntry>>), Absent, Null) }

FetchOutcomes(records) ==
    {Raised} \cup {Returned(q) : q \in SeqsUpTo(records, MaxWrapperRecords)}

\* lines 893-932
GetMatchesByPlayerUuid ==
    \E player_uuid \in WrapperPlayerUuids, net \in FetchOutcomes(WrapperPlayerRecords) :
        WrapperCall("get_matches_by_player_uuid",
                    S2MatchesPlayerKey(player_uuid, 10, 100),
                    MatchesPlayerKey(player_uuid, 10, 100), net)

\* lines 953-992
GetMatchesByInstance ==
    \E instance_id \in WrapperInstanceIds,
       net \in FetchOutcomes(WrapperInstanceRecords) :
        WrapperCall("get_matches_by_instance",
                    S2MatchesInstanceKey(instance_id, 10),
                    MatchesInstanceKey(instance_id, 10), net)

InitWrappers ==
    /\ InitConfig
    /\ max_retries = 0
    /\ rate_limit_delay = 0
    /\ base_retry_delay = 1000
    /\ max_retry_delay = 60000
    /\ InitInstance
    /\ cache_enabled \in BOOLEAN
    /\ cache = <<>>
    /\ arg \in [file : {ItemsFile("missing", <<>>),
                        ItemsFile("array", <<Sword, Nameless, SwordAgain>>)},
                raw : {<<>>}, stored : {<<>>}]
    /\ ret = <<>>

NextWrappers ==
    \/ GetMatchesByPlayerUuid
    \/ GetMatchesByInstance

SpecWrappers == InitWrappers /\ [][NextWrappers]_vars

(***************************************************************************)
(* SpecRace: two callers (threads) in get_access_token on one instance,    *)
(* interleaved statement by statement, each calling up to MaxRaceCalls     *)
(* times while the clock advances up to MaxRaceTime. `arg` holds the       *)
(* callers' locals, `ret` the responses the token endpoint has given (the  *)
(* endpoint issues a new token with each) and whether the stores of two    *)
(* callers have overlapped. The response bodies are well formed.           *)
(***************************************************************************)
\* calls of each caller
MaxRaceCalls == 1
\* the clock stops at MaxRaceTime
MaxRaceTime == 1

Callers == {1, 2}
RaceExpiresIn == {[kind |-> "int", v |-> 10], [kind |-> "int", v |-> 20]}

\* the token of the n-th response
IssuedToken(n) == "t" \o ToString(n)

Locals(line, n) ==
    [line |-> line, calls |-> n, current_time |-> 0,
     token_data |-> NoBody, value |-> NoResult]

RaceUnchanged ==
    UNCHANGED <<config, token_grant, cache, consecutive_rate_limits,
                last_retry_timestamp, pc, op, retry_count, history, sent,
                result, calls, first_result>>

\* a caller enters get_access_token
RaceCall(c) ==
    /\ arg[c].line = "idle"
    /\ arg[c].calls < MaxRaceCalls
    /\ arg' = [arg EXCEPT ![c] = Locals("99", arg[c].calls + 1)]
    /\ UNCHANGED <<access_token, token_expiry, now, ret>>
    /\ RaceUnchanged

\* line 99: current_time = time.time()
RaceReadClock(c) ==
    /\ arg[c].line = "99"
    /\ arg' = [arg EXCEPT ![c].current_time = now, ![c].line = "100"]
    /\ UNCHANGED <<access_token, token_expiry, now, ret>>
    /\ RaceUnchanged

\* line 100, left operand of `and`: self._access_token
RaceCheckToken(c) ==
    /\ arg[c].line = "100"
    /\ arg' = [arg EXCEPT ![c].line =
                  IF access_token \in {None, ""} THEN "119" ELSE "100b"]
    /\ UNCHANGED <<access_token, token_expiry, now, ret>>
    /\ RaceUnchanged

\* line 100, right operand: current_time < self._token_expiry
RaceCheckExpiry(c) ==
    /\ arg[c].line = "100b"
    /\ arg' = [arg EXCEPT ![c].line =
                  IF arg[c].current_time < token_expiry THEN "102" ELSE "119"]
    /\ UNCHANGED <<access_token, token_expiry, now, ret>>
    /\ RaceUnchanged

\* line 102: return self._access_token
RaceReturnCached(c) ==
    /\ arg[c].line = "102"
    /\ arg' = [arg EXCEPT ![c].line = "idle",
                          ![c].value = Returned(access_token)]
    /\ UNCHANGED <<access_token, token_expiry, now, ret>>
    /\ RaceUnchanged

\* line 119: the token request is sent
RaceRequest(c) ==
    /\ arg[c].line = "119"
    /\ arg' = [arg EXCEPT ![c].line = "pending"]
    /\ UNCHANGED <<access_token, token_expiry, now, ret>>
    /\ RaceUnchanged

\* lines 119 and 129-131: the executor raises, the exception leaves the call
RaceRequestFails(c) ==
    /\ arg[c].line = "pending"
    /\ arg' = [arg EXCEPT ![c].line = "idle", ![c].value = Raised]
    /\ UNCHANGED <<access_token, token_expiry, now, ret>>
    /\ RaceUnchanged

\* lines 119-120: the response arrives, token_data = resp.json()
RaceResponse(c, expires_in) ==
    /\ arg[c].line = "pending"
    /\ LET token_data ==
               [access_token |-> IssuedToken(Len(ret.responses) + 1),
                expires_in |-> expires_in]
       IN /\ arg' = [arg EXCEPT ![c].line = "122",
                                ![c].token_data = token_data]
          /\ ret' = [ret EXCEPT !.responses =
                        Append(@, [token_data |-> token_data,
                                   current_time |-> arg[c].current_time])]
    /\ UNCHANGED <<access_token, token_expiry, now>>
    /\ RaceUnchanged

\* variant: the token of the response is not stored
StoredToken_Kept(stored, token_data) == stored

\* line 122: self._access_token = token_data["access_token"]
StoredToken(stored, token_data) == token_data.access_token

RaceStoreToken(c) ==
    /\ arg[c].line = "122"
    /\ access_token' = StoredToken(access_token, arg[c].token_data)
    /\ arg' = [arg EXCEPT ![c].line = "124"]
    /\ ret' = [ret EXCEPT !.overlapped =
                  @ \/ \E other \in Callers \ {c} : arg[other].line = "124"]
    /\ UNCHANGED <<token_expiry, now>>
    /\ RaceUnchanged

\* lines 124-125
RaceStoreExpiry(c) ==
    /\ arg[c].line = "124"
    /\ token_expiry' = arg[c].current_time
                           + ExpirySeconds(ExpiresIn(arg[c].token_data))
    /\ arg' = [arg EXCEPT ![c].line = "128"]
    /\ UNCHANGED <<access_token, now, ret>>
    /\ RaceUnchanged

\* line 128: return self._access_token
RaceReturn(c) ==
    /\ arg[c].line = "128"
    /\ arg' = [arg EXCEPT ![c].line = "idle",
                          ![c].value = Returned(access_token)]
    /\ UNCHANGED <<access_token, token_expiry, now, ret>>
    /\ RaceUnchanged

\* the clock advances
RaceTick ==
    /\ now < MaxRaceTime
    /\ now' = now + 1
    /\ UNCHANGED <<access_token, token_expiry, arg, ret>>
    /\ RaceUnchanged

InitRace ==
    /\ InitConfig
    /\ max_retries = 0
    /\ rate_limit_delay = 0
    /\ base_retry_delay = 1000
    /\ max_retry_delay = 60000
    /\ InitInstance
    /\ cache_enabled = TRUE
    /\ cache = <<>>
    /\ arg = [c \in Callers |-> Locals("idle", 0)]
    /\ ret = [responses |-> <<>>, overlapped |-> FALSE]

NextRace ==
    \/ \E c \in Callers : RaceCall(c)
    \/ \E c \in Callers : RaceReadClock(c)
    \/ \E c \in Callers : RaceCheckToken(c)
    \/ \E c \in Callers : RaceCheckExpiry(c)
    \/ \E c \in Callers : RaceReturnCached(c)
    \/ \E c \in Callers : RaceRequest(c)
    \/ \E c \in Callers : RaceRequestFails(c)
    \/ \E c \in Callers, expires_in \in RaceExpiresIn :
           RaceResponse(c, expires_in)
    \/ \E c \in Callers : RaceStoreToken(c)
    \/ \E c \in Callers : RaceStoreExpiry(c)
    \/ \E c \in Callers : RaceReturn(c)
    \/ RaceTick

SpecRace == InitRace /\ [][NextRace]_vars

(***************************************************************************)
(* SpecBackoff: _calculate_backoff_delay applied on its own.               *)
(***************************************************************************)
InitBackoff ==
    /\ InitConfig
    /\ max_retries = 0
    /\ rate_limit_delay = 0
    /\ InitInstance
    /\ cache_enabled = TRUE
    /\ cache = <<>>
    /\ arg \in [n : 0..MaxRetryIndex, u : RandomDraws]
    /\ ret = <<>>

ApplyBackoff ==
    /\ ret = <<>>
    /\ ret' = <<CalculateBackoffDelay(arg.n, arg.u)>>
    /\ UNCHANGED <<config, credential, cache, consecutive_rate_limits,
                   last_retry_timestamp, now, pc, op, retry_count, history,
                   sent, result, calls, first_result, arg>>

NextBackoff == ApplyBackoff

SpecBackoff == InitBackoff /\ [][NextBackoff]_vars

(***************************************************************************)
(* Claims about the executor (SpecExec) and the backoff delay              *)
(* (SpecBackoff).                                                          *)
(***************************************************************************)
AllAnswered429 == \A i \in 1..Len(attempts) : attempts[i] = "r429"

Count(seq, kind) == Cardinality({i \in 1..Len(seq) : seq[i] = kind})

\* C1: against an endpoint that answers 429 on every attempt, a
\* _make_request_with_retry call with max_retries = N has at most N requests
\* behind it while one is in flight, and ends by raising after exactly N + 1
\* requests and exactly N backoff sleeps (the pacing sleep of
\* _handle_rate_limiting, when configured, is the only other sleep).
C1_PersistentRateLimit ==
    AllAnswered429 =>
        /\ outcome # "returned"
        /\ (outcome = "pending" => Len(attempts) <= max_retries)
        /\ (outcome = "raised" =>
                /\ Len(attempts) = max_retries + 1
                /\ backoff_sleeps = max_retries
                /\ backoff_sleeps + pace_sleeps
                       = max_retries + HandleRateLimiting)

C1_Witness ==
    /\ AllAnswered429
    /\ outcome = "raised"
    /\ max_retries >= 2
    /\ Len(attempts) = max_retries + 1

C8_ZeroRetriesFatal ==
    (max_retries = 0 /\ Len(attempts) >= 1 /\ attempts[1] = "r429") =>
        /\ Len(attempts) = 1
        /\ outcome = "raised"
        /\ backoff_sleeps = 0
        /\ retry_count = 0
        /\ last_sleep.kind # "backoff"

C8_Witness ==
    /\ max_retries = 0
    /\ attempts = <<"r429">>
    /\ outcome = "raised"

\* the seconds (in milliseconds) a numeric Retry-After value stands for,
\* for the values explored, written out by hand
NumericHeaders == {<<"2">>, <<"5", ".", "0">>}
SecondsOf(chars) == IF chars = <<"2">> THEN 2000 ELSE 5000

\* C9: the sleep before a retry of a 429 response is max(computed backoff
\* delay, r) >= r when the response carries a numeric Retry-After of r
\* seconds, and the computed backoff delay when the header is absent, empty
\* or not a number.
C9_RetryAfterRespected ==
    last_sleep.kind = "backoff" =>
        IF last_sleep.header.present
             /\ last_sleep.header.chars \in NumericHeaders
        THEN /\ last_sleep.delay >= SecondsOf(last_sleep.header.chars)
             /\ last_sleep.delay >= last_sleep.computed
             /\ last_sleep.delay \in {last_sleep.computed,
                                      SecondsOf(last_sleep.header.chars)}
        ELSE last_sleep.delay = last_sleep.computed

\* a Retry-After of 5.0 seconds overrides a smaller computed delay
C9_Witness ==
    /\ last_sleep.kind = "backoff"
    /\ last_sleep.header = HeaderOf(<<"5", ".", "0">>)
    /\ last_sleep.computed < 5000
    /\ last_sleep.delay = 5000

\* C10 as stated: for every retry index n the delay lies within
\* [base*2^n*0.8, base*2^n*1.2] and does not exceed max_delay*1.2.
C10_Original ==
    ret # <<>> =>
        /\ 10 * ret[1] >= 8 * base_retry_delay * Pow2(arg.n)
        /\ 10 * ret[1] <= 12 * base_retry_delay * Pow2(arg.n)
        /\ 10 * ret[1] <= 12 * max_retry_delay

\* C10 amended: the delay lies within [c*0.8, c*1.2] for
\* c = min(base*2^n, max_delay); so it exceeds neither base*2^n*1.2 nor
\* max_delay*1.2, and it is at least base*2^n*0.8 whenever
\* base*2^n <= max_delay.
C10_BackoffWithinCappedBand ==
    ret # <<>> =>
        LET raw == base_retry_delay * Pow2(arg.n)
            c == IF raw <= max_retry_delay THEN raw ELSE max_retry_delay
        IN /\ 10 * ret[1] >= 8 * c
           /\ 10 * ret[1] <= 12 * c
           /\ 10 * ret[1] <= 12 * raw
           /\ 10 * ret[1] <= 12 * max_retry_delay
           /\ (raw <= max_retry_delay => 10 * ret[1] >= 8 * raw)

\* a capped delay, below the uncapped band
C10_Witness ==
    /\ ret # <<>>
    /\ base_retry_delay * Pow2(arg.n) > max_retry_delay
    /\ 10 * ret[1] < 8 * base_retry_delay * Pow2(arg.n)

(***************************************************************************)
(* Claims about the token manager (SpecToken).                             *)
(***************************************************************************)
\* get_access_token has made its check of the stored credential
TokenCheckMade ==
    op.name = "get_access_token" /\ op.stage \in {"token", "auth_done",
                                                  "auth_failed"}

\* a token was stored and the clock was strictly before the stored expiry
\* when the call made its check
FoundValidToken == op.pre.token # None /\ op.pre.time < op.pre.expiry

\* C5: a get_access_token call that finds a stored token with the clock
\* strictly before the stored expiry sends nothing, returns that token and
\* leaves the credential alone; a call sends a token request exactly when
\* it finds no stored token or a clock at or past the stored expiry.
C5_TokenServedUntilExpiry ==
    TokenCheckMade =>
        /\ FoundValidToken =>
               /\ sent = NoneSent
               /\ result = Returned(op.pre.token)
               /\ access_token = op.pre.token
               /\ token_expiry = op.pre.expiry
        /\ ~FoundValidToken => sent.token_calls = 1 /\ sent.token >= 1

\* a later call, after time has passed, is served the stored token
C5_Witness ==
    /\ TokenCheckMade
    /\ FoundValidToken
    /\ calls >= 2
    /\ op.pre.time > 0
    /\ result = Returned(op.pre.token)
    /\ sent = NoneSent

\* a get_access_token call that sent a token request has returned
TokenObtained ==
    TokenCheckMade /\ op.stage = "auth_done" /\ sent.token_calls >= 1

\* C6 as stated: the call sends one token request through the executor and
\* stores the returned token with expiry = now + 0.9 * expires_in (in
\* tenths of a second, now being the clock the call read).
C6_Original ==
    TokenObtained =>
        /\ sent.token_calls = 1
        /\ access_token = op.body.access_token
        /\ 10 * token_expiry = 10 * op.current_time + 9 * ExpiresIn(op.body)

\* C6 amended: when no valid token is stored, one get_access_token call
\* hands exactly one token request to the executor and, on success, stores
\* and returns the response's access_token together with
\* expiry = t + floor(0.9 * expires_in), t being the clock read when the
\* call began (before the request) and expires_in 3600 when the response
\* has none; this holds as well for a call that finds an expired token,
\* whose token and expiry are both replaced.
C6_TokenRefresh ==
    TokenCheckMade =>
        /\ sent.token_calls <= 1
        /\ (~FoundValidToken => sent.token_calls = 1)
        /\ TokenObtained =>
               LET e == IF op.body.expires_in.kind = "int"
                        THEN op.body.expires_in.v ELSE 3600
                   life == token_expiry - op.current_time
               IN /\ op.current_time = op.pre.time
                  /\ access_token = op.body.access_token
                  /\ result = Returned(op.body.access_token)
                  /\ 10 * life <= 9 * e
                  /\ 9 * e < 10 * life + 10

\* an expired token is replaced, by a response whose expires_in is no
\* multiple of ten
C6_Witness ==
    /\ TokenObtained
    /\ op.pre.token # None
    /\ op.pre.time >= op.pre.expiry
    /\ access_token # op.pre.token
    /\ token_expiry # op.pre.expiry
    /\ op.body.expires_in = [kind |-> "int", v |-> 5]
    /\ sent.token_calls = 1

(***************************************************************************)
(* Claims about the resource fetchers (SpecFetch) and the response cache   *)
(* (SpecCache).                                                            *)
(***************************************************************************)
\* a fetcher that requests.get serves has had its latest resource request
\* answered by a 429 response while fewer than max_retries retries had been
\* made
DirectRateLimited ==
    /\ op.name \in DirectFetchers
    /\ op.stage \in {"resource", "failed"}
    /\ attempts # <<>>
    /\ attempts[Len(attempts)] = "r429"
    /\ Len(attempts) <= max_retries

\* C2 as stated: a 429 response to a resource request of fetch_player_stats,
\* fetch_matches_by_instance or fetch_player_by_platform_user_id while retry
\* budget remains is followed by a backoff sleep and a retry of the request,
\* and the call does not raise.
C2_Original ==
    DirectRateLimited =>
        /\ outcome = "pending"
        /\ last_sleep.kind = "backoff"
        /\ backoff_sleeps = Len(attempts)
        /\ result # Raised

\* the call has passed its get_access_token step, and its key was in the
\* cache of a caching instance when it began
PastAuthOnHit ==
    /\ op.name \in Fetchers
    /\ op.hit
    /\ op.stage # "auth"

\* C3 as stated: a fetcher call whose key is already stored sends no token
\* request and no resource request, does not raise, and returns the stored
\* value.
C3_Original ==
    PastAuthOnHit =>
        /\ sent = NoneSent
        /\ result # Raised
        /\ (pc = "done" => result = Returned(cache[op.key]))

\* the cache key of a fetcher call
KeyOf(name, args) ==
    IF name = "fetch_matches_by_player_uuid"
    THEN MatchesPlayerKey(args[1], args[2], args[3])
    ELSE IF name = "fetch_player_stats" THEN StatsPlayerKey(args[1])
    ELSE IF name = "fetch_matches_by_instance"
    THEN MatchesInstanceKey(args[1], args[2])
    ELSE PlayerPlatformKey(args[1], args[2])

\* C4: on a caching instance, once a fetcher call has returned, its entry
\* stays in the cache with the value it returned first, whatever calls with
\* other arguments store; a later call with the same arguments sends no
\* resource request, and any value it returns is the first result.
C4_CachedResultStable ==
    /\ \A k \in DOMAIN first_result :
           /\ CacheHas(KeyOf(k[1], k[2]))
           /\ cache[KeyOf(k[1], k[2])] = first_result[k]
    /\ (op.name \in Fetchers /\ op.known) =>
           /\ sent.resource = 0
           /\ (result.status = "returned" =>
                   result = Returned(first_result[<<op.name, op.args>>]))

\* the third call repeats the first after a call with other arguments has
\* stored its own entry, and returns the first result from the cache
C4_Witness ==
    /\ calls = 3
    /\ op.name \in Fetchers
    /\ op.known
    /\ Cardinality(DOMAIN cache) >= 2
    /\ pc = "done"
    /\ result = Returned(first_result[<<op.name, op.args>>])
    /\ sent.resource = 0

(***************************************************************************)
(* Claims about the paginating fetchers (SpecPages).                       *)
(***************************************************************************)
RECURSIVE Flatten(_)
\* the records of a sequence of pages, in the order the server sent them
Flatten(pages) ==
    IF pages = <<>> THEN <<>>
    ELSE Flatten(SubSeq(pages, 1, Len(pages) - 1))
             \o pages[Len(pages)].records

\* the call of this fetcher is past its cache check
Paging(name) ==
    op.name = name /\ op.stage \in {"resource", "done", "failed"}

\* a page request is out, or answered and not yet read by the fetcher
PageRequested == pc \in {"req", "get", "req_done"}

\* C11: fetch_matches_by_player_uuid requests a page only while fewer than
\* max_matches records are accumulated and the page before it carried a
\* cursor; it stops at an empty cursor or at max_matches records, and
\* returns the first min(max_matches, accumulated) records in server order,
\* never more than max_matches.
C11_PlayerPagination ==
    Paging("fetch_matches_by_player_uuid") =>
        LET mm == op.args[3]
            all == Flatten(op.pages)
            n == Len(op.pages)
        IN /\ \A i \in 1..n :
                  /\ Len(Flatten(SubSeq(op.pages, 1, i - 1))) < mm
                  /\ i > 1 => op.pages[i - 1].cursor # ""
           /\ PageRequested =>
                  /\ Len(all) < mm
                  /\ n > 0 => op.pages[n].cursor # ""
           /\ result.status = "returned" =>
                  /\ Len(all) >= mm \/ (n > 0 /\ op.pages[n].cursor = "")
                  /\ Len(result.value[1]) = Min(mm, Len(all))
                  /\ Len(result.value[1]) <= mm
                  /\ \A j \in 1..Len(result.value[1]) :
                         result.value[1][j] = all[j]

\* two pages were read, the second takes the count past max_matches, and
\* the result is cut to max_matches
C11_Witness ==
    /\ Paging("fetch_matches_by_player_uuid")
    /\ result.status = "returned"
    /\ Len(op.pages) = 2
    /\ op.pages[2].cursor # ""
    /\ Len(Flatten(op.pages)) > op.args[3]
    /\ Len(result.value[1]) = op.args[3]

\* C12: fetch_matches_by_instance requests the next page exactly while the
\* last response carried a cursor, and returns the concatenation of the
\* matches lists of all pages in request order, uncut.
C12_InstancePagination ==
    Paging("fetch_matches_by_instance") =>
        LET n == Len(op.pages)
        IN /\ \A i \in 1..(n - 1) : op.pages[i].cursor # ""
           /\ (PageRequested /\ n > 0) => op.pages[n].cursor # ""
           /\ result.status = "returned" =>
                  /\ n > 0
                  /\ op.pages[n].cursor = ""
                  /\ result.value[1] = Flatten(op.pages)

\* every page the bound allows was followed and all their records returned
C12_Witness ==
    /\ Paging("fetch_matches_by_instance")
    /\ result.status = "returned"
    /\ Len(op.pages) = MaxPages + 1
    /\ Len(result.value[1]) > 3

(***************************************************************************)
(* Claims about fetch_player_with_displayname (SpecLookup).                *)
(***************************************************************************)
\* a lookup with include_linked_portals has read the lookup response
LinkingPortals ==
    /\ op.name = "fetch_player_with_displayname"
    /\ op.args[3]
    /\ op.stage \in {"linked", "done", "linked_failed"}

\* the linked-portals requests that failed as requests: an error status or
\* a transport exception
RequestFailures == {"r429", "error", "x429", "xother"}

\* C13: a linked-portals request that fails leaves its player with
\* linked_portals = [] and a linked_portals_error note, and the loop goes
\* on: every player with a player_id gets one request of its own and the
\* list of its own response, and the lookup returns the annotated result
\* without raising.
C13_LinkedPortalFailureLocal ==
    LinkingPortals =>
        LET asked == {i \in 1..Len(op.served) : op.served[i].kind # "skipped"}
            inflight == IF pc \in {"get", "req_done"} THEN 1 ELSE 0
        IN /\ sent.resource = 1 + Cardinality(asked) + inflight
           /\ \A i \in 1..op.idx :
                  LET p == op.players[i]
                      sv == op.served[i]
                  IN /\ sv.kind = "skipped" <=> p.player_id = <<>>
                     /\ sv.kind = "skipped" => p.linked_portals = <<>>
                     /\ sv.kind \in RequestFailures =>
                            /\ p.linked_portals = << <<>> >>
                            /\ p.linked_portals_error = <<sv.kind>>
                     /\ sv.kind = "list" =>
                            /\ p.linked_portals = <<sv.lp>>
                            /\ p.linked_portals_error = <<>>
           /\ (\A i \in 1..Len(op.served) : op.served[i].kind # "attr") =>
                  /\ result # Raised
                  /\ op.stage # "linked_failed"
           /\ result.status = "returned" =>
                  /\ op.idx = Len(op.players)
                  /\ result.value[1] = op.players

\* three players with ids: the request of the second fails, the first and
\* the third get their own lists, and the lookup returns
C13_Witness ==
    /\ LinkingPortals
    /\ result.status = "returned"
    /\ Len(op.players) = 3
    /\ op.served[1] = Served("list", <<"portal">>)
    /\ op.served[2].kind \in RequestFailures
    /\ op.served[3] = Served("list", <<>>)
    /\ result.value[1][2].linked_portals_error # <<>>
    /\ result.value[1][1].linked_portals = << <<"portal">> >>

(***************************************************************************)
(* Claims about get_full_player_data_by_displayname (SpecAggregate).       *)
(***************************************************************************)
\* the aggregation has collected its UUIDs
Aggregating ==
    /\ op.name = "get_full_player_data_by_displayname"
    /\ op.stage \in {"loop", "stats", "matches", "ranks", "done", "failed"}
    /\ op.failed_at \notin {"token", "lookup"}

RECURSIVE Concat(_)
\* the concatenation of a sequence of lists
Concat(lists) ==
    IF lists = <<>> THEN <<>>
    ELSE Concat(SubSeq(lists, 1, Len(lists) - 1)) \o lists[Len(lists)]

\* the ranks each handled rank fetch contributed: its list when it
\* succeeded with one, nothing otherwise
RanksGained(log) ==
    [i \in 1..Len(log) |-> IF log[i].kind = "list" THEN log[i].ranks ELSE <<>>]

DigitOnly(raw) == raw.t = "str" /\ raw.chars # <<>> /\ AllDigits(raw.chars)

\* C15 as stated: for every raw record transform_player returns, with each
\* of the 18 basic-stat keys in basic_stats: the exact integer when the raw
\* value is a digit-only string, and 0 for every other raw value.
C15_Original ==
    ret # <<>> =>
        /\ ret[1].status = "returned"
        /\ \A k \in BasicStatsKeys :
               LET raw == Get(CustomData(arg), <<k>>)
                   stats == ret[1].value[1].basic_stats
               IN /\ k \in DOMAIN stats
                  /\ stats[k] \in Int
                  /\ stats[k] = IF DigitOnly(raw) THEN DigitsVal(raw.chars)
                                ELSE 0

\* the buckets of damage_breakdown that hold the value a key wrote
BucketsOf(key) ==
    LET entries == CustomData(arg)
        placed == Place(entries, Len(entries))
        breakdown == ret[1].value[1].damage_breakdown
    IN {b \in DOMAIN breakdown :
           \E name \in DOMAIN breakdown[b] : placed[<<b, name>>].key = key}

\* C16 as stated: every custom-data key that is no basic-stat key and whose
\* value is a digit-only string appears in exactly one bucket of
\* damage_breakdown.
C16_Original ==
    (ret # <<>> /\ ret[1].status = "returned") =>
        \A i \in 1..Len(CustomData(arg)) :
            LET e == CustomData(arg)[i]
            IN (DigitOnly(e.raw)
                  /\ ~(Len(e.key) = 1 /\ e.key[1] \in BasicStatsKeys)) =>
                   Cardinality(BucketsOf(e.key)) = 1

\* what a raw field encodes when it is the text of a JSON object
EncodedObject(raw) ==
    IF raw.t = "str" /\ JsonLoads(raw.chars).ok
           /\ JsonLoads(raw.chars).value.t = "object"
    THEN JsonLoads(raw.chars).value
    ELSE EmptyObject

\* C18 as stated: items and role_preferences of a returned record are JSON
\* objects: the parsed object when the raw field encodes one, the empty
\* object otherwise.
C18_Original ==
    (ret # <<>> /\ ret[1].status = "returned") =>
        /\ ret[1].value[1].items.t = "object"
        /\ ret[1].value[1].role_preferences.t = "object"
        /\ ret[1].value[1].items =
               EncodedObject(Get(CustomData(arg), <<"Items">>))
        /\ ret[1].value[1].role_preferences =
               EncodedObject(Get(CustomData(arg), <<"RolePreferences">>))

(***************************************************************************)
(* Claims about transform_matches, transform_matches_by_instance and item  *)
(* enrichment (SpecTransformMatches).                                      *)
(***************************************************************************)
\* the call has returned a list
TransformReturned == ret # <<>> /\ ret[1].status = "returned"

\* C17 as stated: with a well-formed items.json, for every list of raw
\* records (fields absent, null, non-numeric or unparsable, `match` or its
\* custom_data absent or null) both transforms return, with exactly one
\* entry per input record, in input order.
C17_Original ==
    (ret # <<>> /\ arg.file.t = "array") =>
        /\ ret[1].status = "returned"
        /\ Len(ret[1].value[1]) = Len(arg.rh_matches)
        /\ \A i \in 1..Len(arg.rh_matches) :
               IF arg.fn = "transform_matches"
               THEN ret[1].value[1][i].player_uuid =
                        arg.rh_matches[i].player_uuid
               ELSE ret[1].value[1][i].match_id = arg.rh_matches[i].match_id

\* the item IDs of the reference table: the non-empty Item_Id values of the
\* objects of a well-formed items.json, none when the file gave no table
TableIds ==
    IF arg.file.t = "array"
    THEN {arg.file.items_data[i].Item_Id :
              i \in 1..Len(arg.file.items_data)} \ {""}
    ELSE {}

\* the table's definition of an ID: the last object of the file that has it
Definition(item_id) ==
    LET at == {i \in 1..Len(arg.file.items_data) :
                   arg.file.items_data[i].Item_Id = item_id}
    IN arg.file.items_data[CHOOSE i \in at : \A j \in at : j <= i]

\* the raw slots of a raw player record: slot key -> raw item ID
RawSlots(raw_player) ==
    EncodedObject(Get(CustomData(raw_player), <<"Items">>)).m

\* the items of an enriched player record are as C19 states them
Enriched(raw_player, player) ==
    /\ player.items.t = "object"
    /\ DOMAIN player.items.m = DOMAIN RawSlots(raw_player)
    /\ \A slot_key \in DOMAIN RawSlots(raw_player) :
           LET item_id == RawSlots(raw_player)[slot_key]
           IN player.items.m[slot_key] =
                  IF item_id \in TableIds THEN Definition(item_id)
                  ELSE Placeholder(item_id)

\* every player record found in the output, with the raw record it came
\* from, satisfies P
EveryPlayerFound(P(_, _)) ==
    \A i \in 1..Len(arg.rh_matches) :
        LET raw == arg.rh_matches[i]
            out == ret[1].value[1][i]
        IN IF arg.fn = "transform_matches" THEN P(raw, out)
           ELSE /\ Len(out.final_players) = Len(Iterated(raw.players))
                /\ \A j \in 1..Len(out.final_players) :
                       P(Iterated(raw.players)[j], out.final_players[j])
                /\ Len(out.segments) = Len(Iterated(raw.segments))
                /\ \A k \in 1..Len(out.segments) :
                       LET raw_players ==
                               Iterated(Iterated(raw.segments)[k].players)
                       IN /\ Len(out.segments[k].players) = Len(raw_players)
                          /\ \A j \in 1..Len(raw_players) :
                                 P(raw_players[j], out.segments[k].players[j])

\* some player record found in the output satisfies P
SomePlayerFound(P(_, _)) == ~EveryPlayerFound(LAMBDA raw, out : ~P(raw, out))

\* C19: after item enrichment every slot of the items mapping of every
\* player record found (each record of a player list; for instance-shaped
\* input each entry of final_players and of every segment's players) holds
\* the reference table's definition when the slot's raw ID is a key of the
\* table and otherwise exactly the placeholder {Item_Id: <raw id>,
\* DisplayName: "<display name missing>"}; the slot keys are unchanged.
C19_EnrichedItems ==
    TransformReturned =>
        /\ Len(ret[1].value[1]) = Len(arg.rh_matches)
        /\ EveryPlayerFound(Enriched)

\* a player with two slots, one whose ID is in the table and one whose ID
\* is not
MixedSlots(raw_player, player) ==
    /\ Cardinality(DOMAIN RawSlots(raw_player)) = 2
    /\ \E s \in DOMAIN player.items.m : player.items.m[s] = SwordAgain
    /\ \E s \in DOMAIN player.items.m : player.items.m[s] = Placeholder("b")

\* an instance-shaped call returns with a segment player whose one slot
\* was given the table's (last) definition and whose other slot was given
\* the placeholder
C19_Witness ==
    /\ TransformReturned
    /\ arg.fn = "transform_matches_by_instance"
    /\ arg.file.t = "array"
    /\ Len(arg.file.items_data) = 3
    /\ SomePlayerFound(MixedSlots)

\* the same call when items.json holds an empty table
WithEmptyTable ==
    IF arg.fn = "transform_matches"
    THEN TransformMatches(arg.rh_matches, ItemsFile("array", <<>>))
    ELSE TransformMatchesByInstance(arg.rh_matches, ItemsFile("array", <<>>))

\* every slot of a player record holds the placeholder of its raw ID
AllPlaceholders(raw_player, player) ==
    /\ player.items.t = "object"
    /\ DOMAIN player.items.m = DOMAIN RawSlots(raw_player)
    /\ \A slot_key \in DOMAIN RawSlots(raw_player) :
           player.items.m[slot_key] = Placeholder(RawSlots(raw_player)[slot_key])

FileUnavailable == arg.file.t \in {"missing", "unreadable", "invalid"}

HasSlots(raw_player, player) == DOMAIN player.items.m # {}

Present ==
    IF arg.filters.t = "none" THEN {}
    ELSE {key \in CriteriaKeys : arg.filters.criteria[key] # <<>>}

\* C21: filter_matches(matches, {}) and filter_matches(matches, None)
\* return the input unchanged: same records, same length, same order.
C21_NoFiltersIdentity ==
    (ret # <<>> /\ Present = {}) => ret[1] = Returned(arg.matches)

\* filter_matches(matches, None) has returned a list of two records
C21_Witness ==
    /\ ret # <<>>
    /\ arg.filters.t = "none"
    /\ Len(arg.matches) = 2
    /\ ret[1].status = "returned"
    /\ ret[1].value[1] = arg.matches

\* a record that has both team_id and winning_team
Decided(match) == match.team_id # <<>> /\ match.winning_team # <<>>

\* C22: when win_only is present every record that lacks team_id or
\* winning_team is excluded, whether win_only is True or False; win_only
\* True alone keeps exactly the records whose team_id equals winning_team,
\* win_only False alone exactly those where both are present and differ.
C22_WinOnly ==
    (ret # <<>> /\ "win_only" \in Present) =>
        /\ ret[1].status = "returned"
        /\ \A i \in 1..Len(ret[1].value[1]) : Decided(ret[1].value[1][i])
        /\ Present = {"win_only"} =>
               ret[1].value[1] =
                   SelectSeq(arg.matches,
                             LAMBDA match :
                                 /\ Decided(match)
                                 /\ arg.filters.criteria.win_only[1]
                                      <=> (match.team_id = match.winning_team))

\* win_only False alone on a list of a loss and of a record without
\* winning_team: the loss alone is returned
C22_Witness ==
    /\ ret # <<>>
    /\ Present = {"win_only"}
    /\ ~arg.filters.criteria.win_only[1]
    /\ Len(arg.matches) = 2
    /\ Decided(arg.matches[1]) /\ ~Decided(arg.matches[2])
    /\ ret[1] = Returned(<<arg.matches[1]>>)

\* what filter_matches does with the same matches under other criteria
Filtered(criteria) == FilterMatches(arg.matches, Filters(criteria))

\* the filters of the call reduced to one of their criteria
Only(key) == [NoCriteria EXCEPT ![key] = arg.filters.criteria[key]]

\* the filters of the call without one of their criteria
Without(key) == [arg.filters.criteria EXCEPT ![key] = <<>>]

\* the records of a list
Records(list) == {list[i] : i \in 1..Len(list)}

\* C23: filter_matches returns exactly the input records that satisfy
\* every criterion present (those that each criterion alone keeps), in
\* input order and unmodified; an absent criterion constrains nothing, so
\* the result is a sub-list of the result for the criteria less one.
C23_Conjunction ==
    (ret # <<>> /\ Present # {}) =>
        /\ ret[1].status = "returned"
        /\ ret[1].value[1] =
               SelectSeq(arg.matches,
                         LAMBDA match :
                             \A key \in Present :
                                 match \in Records(Filtered(Only(key)).value[1]))
        /\ \A key \in Present :
               /\ Filtered(Without(key)).status = "returned"
               /\ ret[1].value[1] =
                      SelectSeq(Filtered(Without(key)).value[1],
                                LAMBDA match : match \in Records(ret[1].value[1]))

\* two criteria on two records: each record passes one criterion and fails
\* the other, so each criterion alone keeps one record and both together
\* keep none
C23_Witness ==
    /\ ret # <<>>
    /\ Cardinality(Present) = 2
    /\ Len(arg.matches) = 2
    /\ ret[1] = Returned(<<>>)
    /\ \A key \in Present : Len(Filtered(Only(key)).value[1]) = 1

(***************************************************************************)
(* Claims about calculate_player_performance and                           *)
(* flatten_player_lookup_response (SpecAnalysis).                          *)
(***************************************************************************)
PerformanceDone == ret # <<>> /\ arg.fn = "calculate_player_performance"

\* a record that has a team_id and a winning_team, and they are equal
Won(match) ==
    match.team_id # <<>> /\ match.winning_team # <<>>
        /\ match.team_id = match.winning_team

\* the number of records of the call with this god_name
Appearances(god) ==
    Cardinality({i \in 1..Len(arg.input) : arg.input[i].god_name = <<god>>})

GodsPlayed ==
    {arg.input[i].god_name[1] :
         i \in {j \in 1..Len(arg.input) : arg.input[j].god_name # <<>>}}

FlattenDone == ret # <<>> /\ arg.fn = "flatten_player_lookup_response"

RECURSIVE Expected(_)
\* one entry per player, in group order then player order, each with the
\* name of its own group
Expected(groups) ==
    IF groups = <<>> THEN <<>>
    ELSE [i \in 1..Len(Head(groups).players) |->
             [player_uuid |-> Head(groups).players[i].player_uuid,
              display_name |-> <<Head(groups).name>>]]
            \o Expected(Tail(groups))

\* C25: flatten_player_lookup_response returns exactly one entry per
\* player over all display-name groups, in group order then player order,
\* each a copy of the player carrying the name of its own group as
\* display_name; empty groups contribute nothing, an empty or None
\* response yields an empty list, and the input response is not modified.
C25_Flatten ==
    FlattenDone =>
        /\ ret[1] = Expected(arg.input.display_names)
        /\ Len(ret[1]) =
               Sum([g \in 1..Len(arg.input.display_names) |->
                        Len(arg.input.display_names[g].players)])
        /\ ret[2] = arg.input

\* a response of an empty group and a group of two players gives two
\* entries, both with the second group's name
C25_Witness ==
    /\ FlattenDone
    /\ Len(arg.input.display_names) = 2
    /\ arg.input.display_names[1].players = <<>>
    /\ Len(arg.input.display_names[2].players) = 2
    /\ arg.input.display_names[1].name # arg.input.display_names[2].name
    /\ Len(ret[1]) = 2
    /\ \A i \in 1..2 :
           ret[1][i].display_name = <<arg.input.display_names[2].name>>

(***************************************************************************)
(* Termination of the executor (SpecExecLive).                             *)
(***************************************************************************)
\* C26: every _make_request_with_retry call terminates: under any
\* sequence of 429 responses, 429 HTTP errors raised by the transport,
\* other errors and successes, a call makes at most max_retries + 1
\* request attempts and at most max_retries backoff sleeps, and it returns
\* a response or raises.
C26_ExecutorTerminates ==
    /\ [](/\ Len(attempts) <= max_retries + 1
          /\ backoff_sleeps <= max_retries
          /\ pc = "req" => Len(attempts) <= max_retries)
    /\ (pc = "req") ~> (pc = "req_done" /\ outcome \in {"returned", "raised"})

\* a call that met a 429 response, then a 429 raised by the transport,
\* then a 429 response again has used its budget of two retries and raised
C26_Witness ==
    /\ max_retries = 2
    /\ attempts = <<"r429", "x429", "r429">>
    /\ backoff_sleeps = 1
    /\ outcome = "raised"
    /\ pc = "req_done"

(***************************************************************************)
(* Failed fetcher calls and the response cache (SpecFailure).              *)
(***************************************************************************)
CachingFetchers == {"fetch_matches_by_player_uuid",
                    "fetch_matches_by_instance", "fetch_player_stats",
                    "fetch_player_by_platform_user_id",
                    "fetch_player_ranks_by_uuid"}

\* C27: if any request of one of the five caching fetchers fails
\* (a page or a sub-request in the middle of the call included), the call
\* raises and the response cache is exactly as it was before the call:
\* nothing is stored before the call returns, nothing under the call's key
\* when it raises, and a call that does not find its key sends its
\* requests (again).
C27_FailureLeavesCache ==
    op.name \in CachingFetchers =>
        /\ result.status # "returned" => cache = op.cache_before
        /\ (pc = "req_done" /\ op.stage = "resource" /\ outcome = "raised")
               => ENABLED ResourceFails
        /\ (result.status = "raised" /\ ~op.hit) => op.key \notin DOMAIN cache
        /\ (result.status = "returned" /\ ~op.hit) => sent.resource >= 1

\* the second page request of fetch_matches_by_player_uuid failed after an
\* earlier call of another fetcher had stored its result: the cache still
\* holds that one entry and nothing of the first page
C27_Witness ==
    /\ op.name = "fetch_matches_by_player_uuid"
    /\ result.status = "raised"
    /\ Len(op.pages) = 1
    /\ op.matches # <<>>
    /\ op.cache_before # <<>>
    /\ cache = op.cache_before
    /\ op.key \notin DOMAIN cache

(***************************************************************************)
(* Cache keys and argument values (SpecKeys).                              *)
(***************************************************************************)
\* C28: two fetcher calls that differ in the fetcher or in any argument
\* value never share a cache entry: a call that is answered from the cache
\* is a call that (with the same fetcher and the same arguments) had
\* returned before, also when argument values contain '_' or ','.
C28_Original ==
    (op.name \in Fetchers /\ result.status = "returned" /\ op.hit)
        => <<op.name, op.args>> \in DOMAIN first_result /\ op.known

(***************************************************************************)
(* A failed get_access_token and the credential (SpecToken).               *)
(***************************************************************************)
\* C29: if get_access_token fails (the token request raised after the
\* executor's retries, or the body lacks access_token or carries a
\* malformed expires_in), the stored token and the stored expiry are both
\* what they were when the call began.
C29_Original ==
    (op.name = "get_access_token" /\ pc = "done" /\ result.status = "raised")
        => /\ access_token = op.pre.token
           /\ token_expiry = op.pre.expiry

(***************************************************************************)
(* The age of a token served from the cache (SpecToken).                   *)
(***************************************************************************)
\* get_access_token has returned the stored token without a token request
ServedFromCache ==
    /\ op.name = "get_access_token"
    /\ pc = "done"
    /\ result.status = "returned"
    /\ sent.token = 0

\* C30: a token served from the cache is served before the start time of
\* the request that obtained it plus 0.9 * expires_in, hence before its
\* server-side expiry (issue time + expires_in, the issue time being no
\* earlier than that start), also when time passed between the start of
\* the token request and its success.
C30_ServedBeforeExpiry ==
    ServedFromCache =>
        /\ token_grant.token = access_token
        /\ result = Returned(access_token)
        /\ token_grant.expires_in # <<>>
        /\ 10 * op.current_time
               < 10 * token_grant.start + 9 * token_grant.expires_in[1]
        /\ \A issued \in token_grant.start .. token_grant.stored :
               op.current_time < issued + token_grant.expires_in[1]

\* a token whose request took two seconds to succeed is served from the
\* cache in the last second before its stored expiry
C30_Witness ==
    /\ ServedFromCache
    /\ token_grant.stored >= token_grant.start + 2
    /\ op.current_time = token_expiry - 1
    /\ op.current_time > token_grant.stored

(***************************************************************************)
(* The cursors of the page requests of one call (SpecPages).               *)
(***************************************************************************)
PagingFetchers == {"fetch_matches_by_player_uuid",
                   "fetch_matches_by_instance"}

\* C31: within one call of a paginating fetcher the page requests are
\* issued one after another (a request is issued only when every earlier
\* one has been answered), the first carries no cursor, and each later one
\* carries exactly the cursor of the response just before it.
C31_CursorChain ==
    op.name \in PagingFetchers =>
        /\ Len(op.page_requests) \in {Len(op.pages), Len(op.pages) + 1}
        /\ (Len(op.page_requests) = Len(op.pages) + 1
               => pc \in {"req", "get", "req_done", "done"})
        /\ \A i \in 1..Len(op.page_requests) :
               op.page_requests[i] =
                   IF i = 1 THEN NoCursor ELSE <<op.pages[i - 1].cursor>>
        /\ \A i \in 1..(Len(op.page_requests) - 1) : op.pages[i].cursor # ""

\* a call has issued three page requests, the second with the cursor of
\* the first response and the third with the different cursor of the second
C31_Witness ==
    /\ op.name \in PagingFetchers
    /\ Len(op.page_requests) = 3
    /\ Len(op.pages) = 2
    /\ op.pages[1].cursor = "c1"
    /\ op.pages[2].cursor = "c2"
    /\ op.page_requests = <<NoCursor, <<"c1">>, <<"c2">>>>

(***************************************************************************)
(* The pacing delay of an executor call (SpecExec).                        *)
(***************************************************************************)
\* C32: a _make_request_with_retry call makes its pacing sleep exactly
\* once, before its first attempt, when rate_limit_delay > 0, and never
\* again before a retry; with rate_limit_delay = 0 it makes none.
C32_PacedOnce ==
    pc \in {"req", "req_done"} =>
        /\ pace_sleeps = IF rate_limit_delay > 0 THEN 1 ELSE 0
        /\ (attempts = <<>> /\ rate_limit_delay > 0) => last_sleep = PaceSleep
        /\ (attempts = <<>> /\ rate_limit_delay = 0) => last_sleep = NoSleep
        /\ backoff_sleeps > 0 => last_sleep.kind = "backoff"
        /\ backoff_sleeps = 0 =>
               last_sleep = IF rate_limit_delay > 0 THEN PaceSleep ELSE NoSleep

\* a paced call that was retried twice has slept once for pacing and twice
\* for backoff
C32_Witness ==
    /\ pc = "req"
    /\ rate_limit_delay > 0
    /\ Len(attempts) = 2
    /\ backoff_sleeps = 2
    /\ pace_sleeps = 1

(***************************************************************************)
(* Termination of the paginating fetchers (SpecTerminationLive).           *)
(***************************************************************************)
\* the page has a record or an empty cursor
Productive(page) == page.records # <<>> \/ page.cursor = ""
\* the page has no record and a cursor
Barren(page) == page.records = <<>> /\ page.cursor # ""

\* C33: fetch_matches_by_player_uuid issues at most max_matches page
\* requests while every page has a record or an empty cursor; a call of
\* either paginating fetcher ends when the server eventually sends an
\* empty cursor; and neither fetcher stops of its own accord while every
\* page is without records and carries a cursor.
C33_Termination ==
    /\ []((op.name = "fetch_matches_by_player_uuid"
             /\ \A i \in 1..Len(op.pages) : Productive(op.pages[i]))
            => Len(op.page_requests) <= op.args[3])
    /\ []((/\ op.name \in PagingFetchers
           /\ op.pages # <<>>
           /\ \A i \in 1..Len(op.pages) : Barren(op.pages[i])
           /\ op.name = "fetch_matches_by_player_uuid" => op.args[3] > 0)
            => /\ result.status # "returned"
               /\ Len(op.page_requests) \in {Len(op.pages), Len(op.pages) + 1}
               /\ pc = "page_loop" => ENABLED PlayerPageLoop)
    /\ (pc = "auth") ~> (pc = "done")

\* a call with max_matches = 1 has had MaxBarrenPages pages without
\* records and has issued one more page request
C33_Witness ==
    /\ op.name = "fetch_matches_by_player_uuid"
    /\ op.args[3] = 1
    /\ Len(op.pages) = MaxBarrenPages
    /\ \A i \in 1..Len(op.pages) : Barren(op.pages[i])
    /\ Len(op.page_requests) = MaxBarrenPages + 1

(***************************************************************************)
(* Degraded results and the cache (SpecDegraded).                          *)
(***************************************************************************)
Lookup == "fetch_player_with_displayname"
Aggregate == "get_full_player_data_by_displayname"

\* a player of the lookup result carries linked_portals_error
LookupDegraded(players) ==
    \E i \in 1..Len(players) : players[i].linked_portals_error # <<>>

\* C34: a degraded result is cached like a successful one.  A
\* fetch_player_with_displayname call that returns a player with
\* linked_portals_error, and a get_full_player_data_by_displayname call
\* that returns after a failed rank fetch, store what they return under
\* their key; a call that finds its key stored returns the stored value
\* and issues no resource request, no linked-portals request and no rank
\* fetch.
C34_DegradedCached ==
    /\ (op.name = Lookup /\ ~op.hit /\ result.status = "returned")
           => /\ op.key \in DOMAIN cache
              /\ result = Returned(cache[op.key])
              /\ cache[op.key] = op.players
    /\ (op.name = Lookup /\ op.hit)
           => /\ sent.resource = 0
              /\ op.served = <<>>
              /\ result.status = "returned"
                     => result = Returned(op.cache_before[op.key])
    /\ (op.name = Aggregate /\ ~op.hit /\ result.status = "returned")
           => /\ op.key \in DOMAIN cache
              /\ result = Returned(cache[op.key])
              /\ cache[op.key] = CombinedData(op)
    /\ (op.name = Aggregate /\ op.hit)
           => /\ pc \in {"agg_cache", "done"}
              /\ op.rank_log = <<>>
              /\ pc = "done" => result = Returned(cache[op.key])

\* the second call of fetch_player_with_displayname is answered from the
\* cache with a player that carries linked_portals_error, without a
\* resource request
C34_Witness ==
    /\ calls = 2
    /\ op.name = Lookup
    /\ op.hit
    /\ result.status = "returned"
    /\ LookupDegraded(result.value[1])
    /\ sent.resource = 0

(***************************************************************************)
(* Wins of transformed records (SpecPipeline).                             *)
(***************************************************************************)
\* team_id is an integer t and WinningTeam is the string of its digits
FixtureShaped(record) ==
    LET winning_team ==
            Get(MatchCustom(record.match).entries, <<"WinningTeam">>)
    IN /\ record.team_id.t = "int"
       /\ IsDigitString(winning_team)
       /\ PyInt(winning_team.chars).ok
       /\ PyInt(winning_team.chars).v = record.team_id.v

\* C35: the records transform_matches makes of raw records whose team_id
\* is the integer t and whose WinningTeam is the string of t are wins:
\* filter_matches with win_only True keeps them and
\* calculate_player_performance counts them in wins.
C35_Original ==
    (/\ arg # <<>>
     /\ \A i \in 1..Len(arg) : FixtureShaped(arg[i])
     /\ ret.kept # <<>>
     /\ ret.performance # <<>>)
        => /\ ret.kept[1] = Returned(AsMatches(ret.s2_matches[1].value[1]))
           /\ ret.performance[1].wins = Len(arg)

\* C36: for every list of match records the wins count of
\* calculate_player_performance is the number of records filter_matches
\* keeps with win_only True, records without team_id or winning_team
\* included.
C36_Original ==
    (ret.kept # <<>> /\ ret.performance # <<>>)
        => /\ ret.kept[1].status = "returned"
           /\ ret.performance[1].wins = Len(ret.kept[1].value[1])

(***************************************************************************)
(* The records behind the wrappers (SpecWrappers).                         *)
(***************************************************************************)
RawKeys == {MatchesPlayerKey(player_uuid, 10, 100) :
                player_uuid \in WrapperPlayerUuids}
               \cup {MatchesInstanceKey(instance_id, 10) :
                         instance_id \in WrapperInstanceIds}
S2Keys == {S2MatchesPlayerKey(player_uuid, 10, 100) :
               player_uuid \in WrapperPlayerUuids}
              \cup {S2MatchesInstanceKey(instance_id, 10) :
                        instance_id \in WrapperInstanceIds}

C38_EnrichedOnce ==
    /\ \A a \in 1..Len(ret) : ret[a].kind = "s2" => ret[a].enriched <= 1
    /\ result.status = "returned" =>
           \A i \in 1..Len(result.value[1]) :
               /\ ret[result.value[1][i]].kind = "s2"
               /\ ret[result.value[1][i]].enriched = 1
    /\ \A key \in S2Keys \cap DOMAIN cache :
           \A i \in 1..Len(cache[key]) :
               /\ ret[cache[key][i]].kind = "s2"
               /\ ret[cache[key][i]].enriched = 1

\* a wrapper has returned a cached list of records with filled item slots
C38_Witness ==
    /\ op.stage = "served"
    /\ result.status = "returned"
    /\ result.value[1] # <<>>
    /\ \E key \in S2Keys \cap DOMAIN cache : cache[key] = result.value[1]
    /\ ret[result.value[1][1]].enriched = 1
    /\ \/ /\ op.name = "get_matches_by_player_uuid"
          /\ ret[result.value[1][1]].record.items.m # <<>>
       \/ /\ op.name = "get_matches_by_instance"
          /\ ret[result.value[1][1]].record.final_players # <<>>

(***************************************************************************)
(* Basic stats and the damage breakdown (SpecTransformPlayer).             *)
(***************************************************************************)
\* C39: no basic-stat key appears in any bucket of damage_breakdown, so a
\* digit-valued basic stat is reported in basic_stats and nowhere else.
C39_Original ==
    (ret # <<>> /\ ret[1].status = "returned") =>
        \A bucket \in DOMAIN ret[1].value[1].damage_breakdown :
            DOMAIN ret[1].value[1].damage_breakdown[bucket]
                \cap BasicStatsKeys = {}

(***************************************************************************)
(* Two callers in get_access_token (SpecRace).                             *)
(***************************************************************************)
Quiet == \A c \in Callers : arg[c].line = "idle"

\* the stored token and the stored expiry are those of one response
FromOneResponse ==
    \E i \in 1..Len(ret.responses) :
        /\ access_token = ret.responses[i].token_data.access_token
        /\ token_expiry =
               ret.responses[i].current_time
                   + ExpirySeconds(ExpiresIn(ret.responses[i].token_data))

\* C40 as stated: once the callers have finished, the stored token and the
\* stored expiry come from the same token response, in every interleaving.
C40_Original ==
    (Quiet /\ ret.responses # <<>>) => FromOneResponse

\* C40: two callers can both pass the expiry check and each send a token
\* request; once they have finished, the stored token and the stored
\* expiry come from the same token response provided no caller stored its
\* token (line 122) while the other was between its two stores (lines 122
\* and 125).
C40_SerialStores ==
    (Quiet /\ ret.responses # <<>> /\ ~ret.overlapped) => FromOneResponse

\* both callers passed the check and sent a request, two responses came,
\* the stores did not overlap and the callers have finished
C40_Witness ==
    /\ Quiet
    /\ Len(ret.responses) = 2
    /\ ret.responses[1].current_time = ret.responses[2].current_time
    /\ ~ret.overlapped
    /\ FromOneResponse
    /\ \A c \in Callers : arg[c].value.status = "returned"

====
